---- MODULE Spec2Model ----
(***************************************************************************)
(* Worker-pool coordinator of libreactor-server: the parent forks one      *)
(* worker per configured CPU, waits on a per-worker eventfd for the        *)
(* worker's readiness, then sits in a wait loop; each worker opens its     *)
(* listener, signals readiness and runs the event loop.                    *)
(*                                                                         *)
(* Every process owns a private copy of the worker manager, of its         *)
(* descriptor table and of its signal flags (fork duplicates them); the    *)
(* eventfd counters are the only kernel objects the processes share.       *)
(***************************************************************************)
EXTENDS Integers, Sequences, FiniteSets, TLC

\* ------------------------------------------------------------------ bounds
MaxWorkers == 2

MaxSignalCalls == 2

\* CPU_SETSIZE, the number of bits of a cpu_set_t (1024 in glibc).
CpuSetSize == 4

\* ------------------------------------------------------- program constants
PROCESS_OK == 0
PROCESS_ERROR_FORK == -1
PROCESS_ERROR_EVENTFD == -2
PROCESS_ERROR_WAIT == -3
PROCESS_ERROR_INVALID_PARAM == -4

PROCESS_TYPE_PARENT == 0
PROCESS_TYPE_WORKER == 1

SERVER_INFRA_OK == 0
SERVER_INFRA_ERROR_STARTUP == -4

EXIT_SUCCESS == 0

SYSTEM_OK == 0
SYSTEM_ERROR_CPU_COUNT == -1
SYSTEM_ERROR_MEMORY == -3
EXIT_FAILURE == 1

\* The process that runs main(); the child forked for slot i is process i + 1,
\* which is also the pid fork() hands back to the parent.
ParentProc == 0

ChildPid(i) == i + 1

Procs == 0..MaxWorkers

WorkerProcs == 1..MaxWorkers

Slots == 0..(MaxWorkers - 1)

\* Descriptor numbers a process can be handed: the three standard streams and
\* one descriptor per readiness channel.
Fds == 0..(MaxWorkers + 3)

VARIABLES
    config,             \* the worker_config_t main() passes to create()
    stdfds,             \* descriptors open at program start (standard streams)
    mgr,                \* mgr[p]: process p's copy of worker_manager_t
    sigflag,            \* sigflag[p]: signal_manager.shutdown_requested in p
    sigactive,          \* sigactive[p]: p's handlers are installed
    chanfd,             \* chanfd[p]: set of <<fd, slot>>: open eventfd handles of p
    counter,            \* counter[c]: the eventfd counter of slot c's channel
    pc,                 \* pc[p]: where process p stands
    status,             \* status[p]: "absent", "running", "exited", "killed", "reaped"
    exit_code,          \* exit_code[p]: what main() returned in p
    li,                 \* li[p]: the loop variable i of fork_workers in p
    efd,                \* efd[p]: the local efd of fork_workers in p
    err,                \* err[p]: what server_infrastructure_start returned in p
    waited,             \* pid the parent's wait() returned, 0 before
    fork_ret,           \* what fork_workers returned in the parent, 1 before
    nsignal,            \* nsignal[c]: successful writes to slot c's channel
    nawait,             \* nawait[c]: successful reads of slot c's channel
    listener,           \* listener[p]: p has opened its listening socket
    sigcalls,           \* sigcalls[p]: calls of signal_ready made by p
    sig_ret,            \* sig_ret[p]: what p's last signal_ready returned, 1 before
    pin_failed,         \* pin_failed[p]: system_set_cpu_affinity failed in p
    fork_failed_at,     \* the slot whose fork() failed, -1 while none has
    beyond,             \* the ints that lie behind the caller's cpu_ids array
    init_res,           \* what worker_manager_init returned and touched
    sm,                 \* sm[a]: the signal_manager_t instance a
    global_signal_manager,  \* the instance the handler dispatches to, or NULL
    disposition,        \* disposition[s]: what the process does on signal s
    sig_alive,          \* the process of the signal managers has not been ended
    sig_op,             \* the last operation on the signal managers: <<name, argument>>
    wpc,                \* "idle", or the instance a while the process is in signal_manager_wait(&a)
    handlers,           \* handlers[a][s]: the callback instance a holds for signal s
    called,             \* the callback the last delivery invoked, "NULL" for none
    gate,               \* the last call of a pool operation from the wrong role
    cpuq                \* the call of system_get_cpu_info: arguments, locals, result

\* The worker pool and the processes around it.
poolvars == <<config, stdfds, mgr, sigflag, sigactive, chanfd, counter, pc, status,
              exit_code, li, efd, err, waited, fork_ret, nsignal, nawait, listener,
              sigcalls, sig_ret, pin_failed, fork_failed_at>>

\* The call of worker_manager_init.
initvars == <<beyond, init_res>>

\* The signal manager instances of one process.
sigvars == <<sm, global_signal_manager, disposition, sig_alive, sig_op, wpc,
             handlers, called>>

\* The calls of pool operations made from the wrong role.
apivars == <<gate>>

\* The call of system_get_cpu_info.
sysvars == <<cpuq>>

vars == <<poolvars, initvars, sigvars, apivars, sysvars>>

\* ---------------------------------------------------------- worker manager
\* memset(manager, 0, sizeof(*manager)): PROCESS_TYPE_PARENT is the zero of
\* process_type_t, NULL arrays are empty sequences.
ZeroManager ==
    [worker_count |-> 0, enable_affinity |-> FALSE, cpu_ids |-> <<>>,
     workers |-> <<>>, type |-> 0, current_worker_id |-> 0]

ZeroContext == [worker_id |-> 0, cpu_id |-> 0, eventfd |-> 0, pid |-> 0]

\* memcpy(dst, src, n * sizeof(int)) out of an array of Len(src) ints: when n
\* is larger, the ints that lie behind the array are read.
Memcpy(src, n, behind) ==
    [k \in 1..n |-> IF k <= Len(src) THEN src[k] ELSE behind[k - Len(src)]]

\* An init that lets a worker count of zero through.
worker_manager_init_ZeroAllowed(m, cfg, behind) ==
    IF cfg.worker_count < 0 \/ cfg.cpu_ids = <<>>
    THEN [ret |-> PROCESS_ERROR_INVALID_PARAM, m |-> m, system_init |-> FALSE, allocs |-> 0]
    ELSE [ret |-> PROCESS_OK,
          m |-> [worker_count |-> cfg.worker_count,
                 enable_affinity |-> cfg.enable_affinity,
                 cpu_ids |-> Memcpy(cfg.cpu_ids, cfg.worker_count, behind),
                 workers |-> [k \in 1..cfg.worker_count |-> ZeroContext],
                 type |-> PROCESS_TYPE_PARENT,
                 current_worker_id |-> -1],
          system_init |-> TRUE, allocs |-> 2]

\* worker_manager_init: [ret, m, system_init, allocs]: the return value, the
\* manager afterwards (on failure as the caller's memset left it), whether
\* system_init was called and the number of blocks allocated and kept. The
\* function is handed a pointer and no length: cpu_ids = <<>> is the NULL
\* pointer, and worker_count ints are copied whatever the array holds.
worker_manager_init(m, cfg, behind) ==
    IF cfg.worker_count <= 0 \/ cfg.cpu_ids = <<>>
    THEN [ret |-> PROCESS_ERROR_INVALID_PARAM, m |-> m, system_init |-> FALSE, allocs |-> 0]
    ELSE [ret |-> PROCESS_OK,
          m |-> [worker_count |-> cfg.worker_count,
                 enable_affinity |-> cfg.enable_affinity,
                 cpu_ids |-> Memcpy(cfg.cpu_ids, cfg.worker_count, behind),
                 workers |-> [k \in 1..cfg.worker_count |-> ZeroContext],
                 type |-> PROCESS_TYPE_PARENT,
                 current_worker_id |-> -1],
          system_init |-> TRUE, allocs |-> 2]

\* What init_res keeps of a call, and its value while no call has been made.
InitResult(r) == [ret |-> r.ret, system_init |-> r.system_init, allocs |-> r.allocs]

NotCalled == [ret |-> 1, system_init |-> FALSE, allocs |-> 0]

\* server_infrastructure_create: memset(infra, 0), then worker_manager_init,
\* whose result is dropped.
server_infrastructure_create(cfg, behind) == worker_manager_init(ZeroManager, cfg, behind).m

worker_manager_get_type(m) == m.type

\* An accessor that hands out the index whatever the role is.
worker_manager_get_worker_id_NoRoleCheck(m) == m.current_worker_id

worker_manager_get_worker_id(m) ==
    IF m.type # PROCESS_TYPE_WORKER THEN -1 ELSE m.current_worker_id

worker_manager_get_cpu_id(m) ==
    IF m.type # PROCESS_TYPE_WORKER THEN -1
    ELSE IF m.current_worker_id < 0 \/ m.current_worker_id >= m.worker_count THEN -1
    ELSE m.workers[m.current_worker_id + 1].cpu_id

\* ------------------------------------------------------------- descriptors
OpenFds(p) == stdfds \cup {h[1] : h \in chanfd[p]}

\* The lowest descriptor number not in use, as the kernel hands them out.
LowestFree(p) == CHOOSE f \in Fds : f \notin OpenFds(p) /\ \A g \in Fds : g < f => g \in OpenFds(p)

\* close(fd) on a table: closing a number that is not open changes nothing.
Close(tab, fd) == {h \in tab : h[1] # fd}

CloseAll(tab, fdset) == {h \in tab : h[1] \notin fdset}

\* The channel descriptor fd refers to in table tab, -1 when it is no channel.
ChanOf(tab, fd) == IF \E h \in tab : h[1] = fd THEN (CHOOSE h \in tab : h[1] = fd)[2] ELSE -1

\* ------------------------------------------------------------ configuration
\* The CPU lists main() can be handed: the online CPUs in ascending order
\* (system_get_cpu_info), or any other list of distinct ids a caller builds.
CpuLists(n) == {[k \in 1..n |-> k - 1], [k \in 1..n |-> n - k + 1]}

\* Valid configurations, and the fallback of server_infrastructure_default_config
\* when the CPU query failed: worker_count 1 with cpu_ids NULL.
Configs ==
    {[worker_count |-> n, cpu_ids |-> ids, enable_affinity |-> a] :
        n \in 1..MaxWorkers, ids \in UNION {CpuLists(k) : k \in 1..MaxWorkers}, a \in BOOLEAN}

ValidConfigs == {c \in Configs : Len(c.cpu_ids) = c.worker_count}

FallbackConfig == [worker_count |-> 1, cpu_ids |-> <<>>, enable_affinity |-> TRUE]

\* Configurations with a worker count that is not positive.
NonPositiveConfigs ==
    {[worker_count |-> n, cpu_ids |-> ids, enable_affinity |-> a] :
        n \in {-1, 0},
        ids \in {<<>>} \cup UNION {CpuLists(k) : k \in 1..MaxWorkers},
        a \in BOOLEAN}

\* ------------------------------------------------------ system_get_cpu_info
\* No call of system_get_cpu_info is under way.
NoCpuQuery ==
    [mask |-> {}, query_ok |-> TRUE, malloc_ok |-> TRUE, pc |-> "idle", abs |-> 0,
     num |-> 0, ids |-> <<>>, count |-> 0, ret |-> 1]

\* The calls of system_get_cpu_info about to be made: the affinity mask of
\* the process, whether sched_getaffinity succeeds and whether system_malloc
\* does.
CpuQueries ==
    {[NoCpuQuery EXCEPT !.mask = m, !.query_ok = q, !.malloc_ok = a, !.pc = "call"] :
        m \in SUBSET (0..(CpuSetSize - 1)), q \in BOOLEAN, a \in BOOLEAN}

\* The entry of system_get_cpu_info up to the loop: sched_getaffinity,
\* CPU_COUNT, system_malloc.
system_get_cpu_info_enter(q) ==
    IF ~q.query_ok THEN [q EXCEPT !.pc = "done", !.ret = SYSTEM_ERROR_CPU_COUNT]
    ELSE IF Cardinality(q.mask) <= 0
    THEN [q EXCEPT !.pc = "done", !.ret = SYSTEM_ERROR_CPU_COUNT]
    ELSE IF ~q.malloc_ok THEN [q EXCEPT !.pc = "done", !.ret = SYSTEM_ERROR_MEMORY]
    ELSE [q EXCEPT !.pc = "loop", !.num = Cardinality(q.mask), !.abs = 0]

\* The return of system_get_cpu_info after its loop: info->count and
\* info->cpu_ids are filled.
system_get_cpu_info_return(q) ==
    [q EXCEPT !.pc = "done", !.count = q.num, !.ret = SYSTEM_OK]

\* A loop that stores the position in the array where the CPU number
\* belongs.
system_get_cpu_info_step_RelIndex(q) ==
    IF q.abs >= CpuSetSize THEN system_get_cpu_info_return(q)
    ELSE IF q.abs \in q.mask
    THEN LET q1 == [q EXCEPT !.ids = Append(q.ids, Len(q.ids))]
         IN IF Len(q1.ids) = q.num THEN system_get_cpu_info_return(q1)
            ELSE [q1 EXCEPT !.abs = q.abs + 1]
    ELSE [q EXCEPT !.abs = q.abs + 1]

\* One turn of the loop over abs_cpu_index: a CPU in the mask is stored at
\* rel_cpu_index, and the loop is left once num_online_cpus are stored.
system_get_cpu_info_step(q) ==
    IF q.abs >= CpuSetSize THEN system_get_cpu_info_return(q)
    ELSE IF q.abs \in q.mask
    THEN LET q1 == [q EXCEPT !.ids = Append(q.ids, q.abs)]
         IN IF Len(q1.ids) = q.num THEN system_get_cpu_info_return(q1)
            ELSE [q1 EXCEPT !.abs = q.abs + 1]
    ELSE [q EXCEPT !.abs = q.abs + 1]

\* ---------------------------------------------------------- signal manager
Signals == {"SIGTERM", "SIGINT", "SIGHUP", "SIGUSR1", "SIGUSR2", "SIGPIPE"}

\* The signal_manager_t instances a process can hold.
Insts == {"A", "B"}

\* A signal_config_t: the handle_* flag of every signal.
signal_manager_default_config ==
    [s \in Signals |-> s \in {"SIGTERM", "SIGINT", "SIGPIPE"}]

\* The configurations handed to signal_manager_init: the default, every
\* signal enabled, and reload alone.
SignalConfigs ==
    {signal_manager_default_config,
     [s \in Signals |-> TRUE],
     [s \in Signals |-> s = "SIGHUP"]}

\* The signals signal_manager_t has a callback field for.
CallbackSignals == {"SIGTERM", "SIGINT", "SIGHUP", "SIGUSR1", "SIGUSR2"}

\* The values of a callback field: NULL and two functions.
Callbacks == {"NULL", "f", "g"}

\* The five callback fields after memset(manager, 0, sizeof(*manager)).
NoHandlers == [s \in CallbackSignals |-> "NULL"]

\* memset(manager, 0, sizeof(*manager)).
ZeroSignalManager ==
    [config |-> [s \in Signals |-> FALSE], shutdown_requested |-> 0,
     reload_requested |-> 0]

\* The signal managers of a process before any is initialised: system_init
\* has set SIGPIPE to SIG_IGN, every other signal has its default disposition.
SigIdle ==
    /\ sm = [a \in Insts |-> ZeroSignalManager]
    /\ global_signal_manager = "NULL"
    /\ disposition = [s \in Signals |-> IF s = "SIGPIPE" THEN "SIG_IGN" ELSE "SIG_DFL"]
    /\ sig_alive = TRUE
    /\ sig_op = <<"none", "none">>
    /\ wpc = "idle"
    /\ handlers = [a \in Insts |-> NoHandlers]
    /\ called = "NULL"

\* A handler that raises the reload flag on every signal it is run for.
signal_handler_AlwaysReload(m, signum) == [m EXCEPT !.reload_requested = 1]

\* signal_handler(signum) with global_signal_manager pointing at m: the
\* manager afterwards.
signal_handler(m, signum) ==
    IF signum \in {"SIGTERM", "SIGINT"}
    THEN [m EXCEPT !.shutdown_requested = 1]
    ELSE IF signum = "SIGHUP"
    THEN [m EXCEPT !.reload_requested = 1]
    ELSE m

\* The callback signal_handler(signum) invokes out of the fields h of the
\* dispatch target: the field of the signal, none for SIGPIPE.
signal_handler_callback(h, signum) ==
    IF signum \in CallbackSignals THEN h[signum] ELSE "NULL"

\* A set_handler that keeps a callback already registered.
signal_manager_set_handler_KeepFirst(h, signum, callback) ==
    IF signum \in CallbackSignals
    THEN [ret |-> "SIGNAL_OK",
          h |-> IF h[signum] = "NULL" THEN [h EXCEPT ![signum] = callback] ELSE h]
    ELSE [ret |-> "SIGNAL_ERROR_INVALID_PARAM", h |-> h]

\* signal_manager_set_handler on the callback fields h: [ret, h].
signal_manager_set_handler(h, signum, callback) ==
    IF signum \in CallbackSignals
    THEN [ret |-> "SIGNAL_OK", h |-> [h EXCEPT ![signum] = callback]]
    ELSE [ret |-> "SIGNAL_ERROR_INVALID_PARAM", h |-> h]

\* setup_signal_handler(signum, enable) on the dispositions disp when sigaction
\* succeeds; its failure inside signal_manager_init is
\* signal_manager_init_failing.
setup_signal_handler(disp, signum, enable) ==
    [disp EXCEPT ![signum] = IF enable THEN "handler" ELSE "SIG_DFL"]

\* setup_signal_handler for every signal cfg enables.
SetupEnabled(disp, cfg, enable) ==
    [s \in Signals |-> IF cfg[s] THEN setup_signal_handler(disp, s, enable)[s] ELSE disp[s]]

\* An init that leaves global_signal_manager where it points.
signal_manager_init_NoTarget(cfg, disp) ==
    [m |-> [ZeroSignalManager EXCEPT !.config = cfg],
     disp |-> SetupEnabled(disp, cfg, TRUE),
     target |-> FALSE]

\* The order in which signal_manager_init sets the handlers up.
SignalOrder == <<"SIGTERM", "SIGINT", "SIGHUP", "SIGUSR1", "SIGUSR2", "SIGPIPE">>

\* signal_manager_init when sigaction fails for the k-th signal of the order,
\* which cfg enables: the instance is filled, global_signal_manager points at
\* it, the enabled signals before the k-th have their handler, and
\* SIGNAL_ERROR_SETUP is returned.
signal_manager_init_failing(cfg, disp, k) ==
    [m |-> [ZeroSignalManager EXCEPT !.config = cfg],
     disp |-> [s \in Signals |->
                 IF cfg[s] /\ \E j \in 1..(k - 1) : SignalOrder[j] = s
                 THEN setup_signal_handler(disp, s, TRUE)[s]
                 ELSE disp[s]],
     target |-> TRUE,
     ret |-> "SIGNAL_ERROR_SETUP"]

\* signal_manager_init: [m, disp, target]: the instance, the dispositions and
\* whether global_signal_manager has been pointed at the instance.
signal_manager_init(cfg, disp) ==
    [m |-> [ZeroSignalManager EXCEPT !.config = cfg],
     disp |-> SetupEnabled(disp, cfg, TRUE),
     target |-> TRUE]

\* A cleanup that clears the dispatch target whatever it points at.
signal_manager_cleanup_target_Always(target, a) == "NULL"

\* signal_manager_cleanup(&a) and global_signal_manager: the reference is
\* removed only when it points at a.
signal_manager_cleanup_target(target, a) == IF target = a THEN "NULL" ELSE target

\* A cleanup that leaves the handlers installed.
signal_manager_cleanup_KeepHandlers(m, disp) ==
    [m |-> ZeroSignalManager, disp |-> disp]

\* signal_manager_cleanup: [m, disp]: the instance and the dispositions.
signal_manager_cleanup(m, disp) ==
    [m |-> ZeroSignalManager, disp |-> SetupEnabled(disp, m.config, FALSE)]

signal_manager_shutdown_requested(m) == m.shutdown_requested # 0

signal_manager_reload_requested(m) == m.reload_requested # 0

signal_manager_reset_shutdown(m) == [m EXCEPT !.shutdown_requested = 0]

\* A reset of the reload flag that clears the shutdown flag as well.
signal_manager_reset_reload_Both(m) ==
    [m EXCEPT !.reload_requested = 0, !.shutdown_requested = 0]

signal_manager_reset_reload(m) == [m EXCEPT !.reload_requested = 0]

\* A wait that is over whatever the flags are.
signal_manager_wait_done_Always(m) == TRUE

\* The condition that ends the loop of signal_manager_wait.
signal_manager_wait_done(m) == m.shutdown_requested # 0 \/ m.reload_requested # 0

\* ------------------------------------------------------------ initial state
\* No pool operation has been called from the wrong role.
NoCall == [op |-> "none", proc |-> -1, ret |-> 1, waits |-> FALSE, wrote |-> -1]

\* The processes before main() calls start(): what does not depend on the
\* configuration.
InitProcesses ==
    /\ stdfds \in {{0, 1, 2}, {1, 2}}
    /\ sigflag = [p \in Procs |-> FALSE]
    /\ sigactive = [p \in Procs |-> p = ParentProc]
    /\ chanfd = [p \in Procs |-> {}]
    /\ counter = [c \in Slots |-> 0]
    /\ status = [p \in Procs |-> IF p = ParentProc THEN "running" ELSE "absent"]
    /\ exit_code = [p \in Procs |-> 0]
    /\ li = [p \in Procs |-> 0]
    /\ efd = [p \in Procs |-> -1]
    /\ err = [p \in Procs |-> SERVER_INFRA_OK]
    /\ waited = 0
    /\ fork_ret = 1
    /\ nsignal = [c \in Slots |-> 0]
    /\ nawait = [c \in Slots |-> 0]
    /\ listener = [p \in Procs |-> FALSE]
    /\ sigcalls = [p \in Procs |-> 0]
    /\ sig_ret = [p \in Procs |-> 1]
    /\ pin_failed = [p \in Procs |-> FALSE]
    /\ fork_failed_at = -1
    /\ gate = NoCall

\* main() has built its configuration and server_infrastructure_create has
\* returned SERVER_INFRA_OK: the worker manager is what worker_manager_init
\* made of it, the signal handlers of the default configuration are installed.
Init ==
    /\ config \in ValidConfigs \cup {FallbackConfig} \cup NonPositiveConfigs
    /\ beyond = <<>>
    /\ init_res = InitResult(worker_manager_init(ZeroManager, config, beyond))
    /\ mgr = [p \in Procs |-> IF p = ParentProc
                                THEN server_infrastructure_create(config, beyond)
                                ELSE ZeroManager]
    /\ pc = [p \in Procs |-> IF p = ParentProc THEN "start" ELSE "none"]
    /\ InitProcesses
    /\ SigIdle
    /\ cpuq = NoCpuQuery

Running(p) == status[p] = "running"

\* ----------------------------------------------- server_infrastructure_start
\* A worker branch that signals before it has opened its listener.
StartBranch_SkipOpen(proc_err, m) ==
    IF proc_err # PROCESS_OK THEN "ret"
    ELSE IF worker_manager_get_type(m) = PROCESS_TYPE_WORKER THEN "w_signal"
    ELSE "p_loop"

\* A start() that calls fork_workers again when it returned an error.
StartBranch_RetryOnError(proc_err, m) ==
    IF proc_err # PROCESS_OK THEN "fork_loop"
    ELSE IF worker_manager_get_type(m) = PROCESS_TYPE_WORKER THEN "w_open"
    ELSE "p_loop"

\* A worker branch whose process goes on with the fork loop.
StartBranch_WorkerLoops(proc_err, m) ==
    IF proc_err # PROCESS_OK THEN "ret"
    ELSE IF worker_manager_get_type(m) = PROCESS_TYPE_WORKER THEN "fork_loop"
    ELSE "p_loop"

\* What start() does with the value fork_workers returned in a process whose
\* manager is m: an error ends start(), otherwise the role picks the branch.
StartBranch(proc_err, m) ==
    IF proc_err # PROCESS_OK THEN "ret"
    ELSE IF worker_manager_get_type(m) = PROCESS_TYPE_WORKER THEN "w_open"
    ELSE "p_loop"

StartErr(proc_err) ==
    IF proc_err # PROCESS_OK THEN SERVER_INFRA_ERROR_STARTUP ELSE SERVER_INFRA_OK

\* main() calls start(), which calls fork_workers(): i = 0.
StartServer(p) ==
    /\ UNCHANGED <<initvars, sigvars, apivars, sysvars>>
    /\ Running(p) /\ pc[p] = "start"
    /\ pc' = [pc EXCEPT ![p] = "fork_loop"]
    /\ li' = [li EXCEPT ![p] = 0]
    /\ UNCHANGED <<config, stdfds, mgr, sigflag, sigactive, chanfd, counter, status,
                   exit_code, efd, err, waited, fork_ret, nsignal, nawait, listener,
                   sigcalls, sig_ret, pin_failed,
                   fork_failed_at>>

\* ------------------------------------------------ worker_manager_fork_workers
\* A parent branch that forgets to record the child's pid.
ParentRecord_NoPid(m, i, fd, pid) ==
    [m EXCEPT !.workers[i + 1] =
        [worker_id |-> i, cpu_id |-> m.cpu_ids[i + 1], eventfd |-> fd, pid |-> 0]]

\* The parent branch's record of the child in slot i.
ParentRecord(m, i, fd, pid) ==
    [m EXCEPT !.workers[i + 1] =
        [worker_id |-> i, cpu_id |-> m.cpu_ids[i + 1], eventfd |-> fd, pid |-> pid]]

\* eventfd() and fork() succeed: the child is a copy of the parent taken before
\* the parent branch records anything.
SpawnOk(p) ==
    /\ UNCHANGED <<initvars, sigvars, apivars, sysvars>>
    /\ Running(p) /\ pc[p] = "fork_loop"
    /\ li[p] < mgr[p].worker_count
    /\ LET i == li[p]
           fd == LowestFree(p)
           c == ChildPid(i)
       IN /\ status[c] = "absent"
          /\ chanfd' = [chanfd EXCEPT ![p] = @ \cup {<<fd, i>>},
                                      ![c] = chanfd[p] \cup {<<fd, i>>}]
          /\ counter' = [counter EXCEPT ![i] = 0]
          /\ mgr' = [mgr EXCEPT ![p] = ParentRecord(@, i, fd, c), ![c] = mgr[p]]
          /\ sigflag' = [sigflag EXCEPT ![c] = sigflag[p]]
          /\ sigactive' = [sigactive EXCEPT ![c] = sigactive[p]]
          /\ status' = [status EXCEPT ![c] = "running"]
          /\ pc' = [pc EXCEPT ![p] = "p_await", ![c] = "c_branch"]
          /\ li' = [li EXCEPT ![c] = i]
          /\ efd' = [efd EXCEPT ![p] = fd, ![c] = fd]
    /\ UNCHANGED <<config, stdfds, exit_code, err, waited, fork_ret, nsignal, nawait,
                   listener, sigcalls, sig_ret, pin_failed,
                   fork_failed_at>>

\* fork_workers returns ret in the parent; start() acts on it.
ForkReturn(p, ret) ==
    /\ fork_ret' = ret
    /\ pc' = [pc EXCEPT ![p] = StartBranch(ret, mgr'[p])]
    /\ err' = [err EXCEPT ![p] = StartErr(ret)]

\* eventfd() fails: return PROCESS_ERROR_EVENTFD.
SpawnEventfdFail(p) ==
    /\ UNCHANGED <<initvars, sigvars, apivars, sysvars>>
    /\ Running(p) /\ pc[p] = "fork_loop"
    /\ li[p] < mgr[p].worker_count
    /\ mgr' = mgr
    /\ ForkReturn(p, PROCESS_ERROR_EVENTFD)
    /\ UNCHANGED <<config, stdfds, sigflag, sigactive, chanfd, counter, status,
                   exit_code, li, efd, waited, nsignal, nawait, listener, sigcalls,
                   sig_ret, pin_failed,
                   fork_failed_at>>

\* A loop that goes on to the next slot when fork() returned -1.
OnForkFail_Continue(p) ==
    /\ mgr' = mgr
    /\ li' = [li EXCEPT ![p] = @ + 1]
    /\ UNCHANGED <<fork_ret, pc, err>>

\* What the loop does when fork() returned -1: close(efd), return the error.
OnForkFail(p) ==
    /\ mgr' = mgr
    /\ li' = li
    /\ ForkReturn(p, PROCESS_ERROR_FORK)

\* fork() fails: the eventfd just created is closed again, no child exists.
SpawnForkFail(p) ==
    /\ UNCHANGED <<initvars, sigvars, apivars, sysvars>>
    /\ Running(p) /\ pc[p] = "fork_loop"
    /\ li[p] < mgr[p].worker_count
    /\ OnForkFail(p)
    /\ fork_failed_at' = li[p]
    /\ UNCHANGED <<config, stdfds, sigflag, sigactive, chanfd, counter, status,
                   exit_code, efd, waited, nsignal, nawait, listener, sigcalls,
                   sig_ret, pin_failed>>

\* A read that does not block (an eventfd created with EFD_NONBLOCK).
ReadReady_NonBlocking(p) == ChanOf(chanfd[p], efd[p]) >= 0

\* eventfd_read blocks while the counter is zero.
ReadReady(p) ==
    LET c == ChanOf(chanfd[p], efd[p]) IN c >= 0 /\ counter[c] > 0

\* A parent that keeps its handle open after the handshake.
ParentCloseAfterRead_Leak(tab, fd) == tab

\* The parent's descriptor table after the handshake: close(efd).
ParentCloseAfterRead(tab, fd) == Close(tab, fd)

\* eventfd_read returns: close(efd), mark the slot closed, continue with i + 1.
ParentAwaitOk(p) ==
    /\ UNCHANGED <<initvars, sigvars, apivars, sysvars>>
    /\ Running(p) /\ pc[p] = "p_await"
    /\ ReadReady(p)
    /\ LET i == li[p]
           c == ChanOf(chanfd[p], efd[p])
       IN /\ IF c >= 0
             THEN /\ counter' = [counter EXCEPT ![c] = IF @ > 0 THEN @ - 1 ELSE 0]
                  /\ nawait' = [nawait EXCEPT ![c] = @ + 1]
             ELSE UNCHANGED <<counter, nawait>>
          /\ chanfd' = [chanfd EXCEPT ![p] = ParentCloseAfterRead(@, efd[p])]
          /\ mgr' = [mgr EXCEPT ![p].workers[i + 1].eventfd = -1]
          /\ li' = [li EXCEPT ![p] = i + 1]
          /\ pc' = [pc EXCEPT ![p] = "fork_loop"]
    /\ UNCHANGED <<config, stdfds, sigflag, sigactive, status, exit_code, efd, err,
                   waited, fork_ret, nsignal, listener, sigcalls, sig_ret, pin_failed,
                   fork_failed_at>>

\* eventfd_read returns -1: close(efd), return PROCESS_ERROR_EVENTFD; the slot
\* keeps the descriptor number.
ParentAwaitFail(p) ==
    /\ UNCHANGED <<initvars, sigvars, apivars, sysvars>>
    /\ Running(p) /\ pc[p] = "p_await"
    /\ chanfd' = [chanfd EXCEPT ![p] = Close(@, efd[p])]
    /\ mgr' = mgr
    /\ ForkReturn(p, PROCESS_ERROR_EVENTFD)
    /\ UNCHANGED <<config, stdfds, sigflag, sigactive, counter, status, exit_code,
                   li, efd, waited, nsignal, nawait, listener, sigcalls, sig_ret,
                   pin_failed,
                   fork_failed_at>>

\* The loop ran out of slots: return PROCESS_OK.
ForkLoopDone(p) ==
    /\ UNCHANGED <<initvars, sigvars, apivars, sysvars>>
    /\ Running(p) /\ pc[p] = "fork_loop"
    /\ li[p] >= mgr[p].worker_count
    /\ mgr' = mgr
    /\ ForkReturn(p, PROCESS_OK)
    /\ UNCHANGED <<config, stdfds, sigflag, sigactive, chanfd, counter, status,
                   exit_code, li, efd, waited, nsignal, nawait, listener, sigcalls,
                   sig_ret, pin_failed,
                   fork_failed_at>>

\* A worker branch that takes the slot index for the CPU id.
WorkerRecord_CpuIsIndex(m, i, fd) ==
    [m EXCEPT !.workers[i + 1].eventfd = fd,
              !.workers[i + 1].cpu_id = i]

\* The worker branch once affinity is settled: the child stores its own
\* descriptor and CPU id in slot i.
WorkerRecord(m, i, fd) ==
    [m EXCEPT !.workers[i + 1].eventfd = fd,
              !.workers[i + 1].cpu_id = m.cpu_ids[i + 1]]

\* "Free parent-only resources": the descriptors the child's copy of the
\* slots 0..i-1 still records as open (eventfd > 0).
InheritedFds(m, i) ==
    {m.workers[j + 1].eventfd : j \in {k \in 0..(i - 1) : m.workers[k + 1].eventfd > 0}}

MarkClosed(m, i) ==
    [m EXCEPT !.workers =
        [k \in DOMAIN m.workers |->
            IF k - 1 < i /\ m.workers[k].eventfd > 0
            THEN [m.workers[k] EXCEPT !.eventfd = -1]
            ELSE m.workers[k]]]

\* The role the child takes: type and current_worker_id.
TakeWorkerRole(m, i) ==
    [m EXCEPT !.type = PROCESS_TYPE_WORKER, !.current_worker_id = i]

\* The child's continuation of fork(): affinity is off or the pin succeeds.
WorkerBranchOk(p) ==
    /\ UNCHANGED <<initvars, sigvars, apivars, sysvars>>
    /\ Running(p) /\ pc[p] = "c_branch"
    /\ LET i == li[p]
           m1 == TakeWorkerRole(mgr[p], i)
           m2 == WorkerRecord(m1, i, efd[p])
       IN /\ mgr' = [mgr EXCEPT ![p] = MarkClosed(m2, i)]
          /\ chanfd' = [chanfd EXCEPT ![p] = CloseAll(@, InheritedFds(m2, i))]
          /\ pc' = [pc EXCEPT ![p] = StartBranch(PROCESS_OK, mgr'[p])]
    /\ UNCHANGED <<config, stdfds, sigflag, sigactive, counter, status, exit_code,
                   li, efd, err, waited, fork_ret, nsignal, nawait, listener,
                   sigcalls, sig_ret, pin_failed,
                   fork_failed_at>>

\* A start() that does not look at what fork_workers returned.
ChildStartBranch_IgnoreError(proc_err, m) == StartBranch(PROCESS_OK, m)

\* Where start() goes in the child when fork_workers returned proc_err there.
ChildStartBranch(proc_err, m) == StartBranch(proc_err, m)

\* The child's continuation when system_set_cpu_affinity fails: close(efd),
\* return PROCESS_ERROR_INVALID_PARAM.
WorkerBranchPinFail(p) ==
    /\ UNCHANGED <<initvars, sigvars, apivars, sysvars>>
    /\ Running(p) /\ pc[p] = "c_branch"
    /\ mgr[p].enable_affinity
    /\ LET i == li[p]
       IN /\ mgr' = [mgr EXCEPT ![p] = TakeWorkerRole(@, i)]
          /\ chanfd' = [chanfd EXCEPT ![p] = Close(@, efd[p])]
          /\ pc' = [pc EXCEPT ![p] =
                        ChildStartBranch(PROCESS_ERROR_INVALID_PARAM, mgr'[p])]
          /\ err' = [err EXCEPT ![p] = StartErr(PROCESS_ERROR_INVALID_PARAM)]
          /\ pin_failed' = [pin_failed EXCEPT ![p] = TRUE]
    /\ UNCHANGED <<config, stdfds, sigflag, sigactive, counter, status, exit_code,
                   li, efd, waited, fork_ret, nsignal, nawait, listener, sigcalls,
                   sig_ret, fork_failed_at>>

\* ------------------------------------------------ worker_manager_signal_ready
\* A signal that leaves the descriptor open and the slot unmarked.
SignalDone_KeepOpen(m, tab, id, fd) ==
    [ret |-> PROCESS_OK, m |-> m, tab |-> tab, wrote |-> ChanOf(tab, fd)]

\* A successful signal: close(efd) and mark the slot closed.
SignalDone(m, tab, id, fd) ==
    [ret |-> PROCESS_OK, m |-> [m EXCEPT !.workers[id + 1].eventfd = -1],
     tab |-> Close(tab, fd), wrote |-> ChanOf(tab, fd)]

\* [ret, m, tab, wrote]: the return value, the manager and the descriptor table
\* afterwards, and the channel written to (-1: none). eventfd_write(efd, 1) on an
\* open eventfd whose counter is far from its maximum neither blocks nor fails;
\* on a number that is no open descriptor it fails (EBADF).
worker_manager_signal_ready(m, tab) ==
    LET id == m.current_worker_id
        unchanged(r) == [ret |-> r, m |-> m, tab |-> tab, wrote |-> -1]
    IN IF m.type # PROCESS_TYPE_WORKER THEN unchanged(PROCESS_ERROR_INVALID_PARAM)
       ELSE IF id < 0 \/ id >= m.worker_count THEN unchanged(PROCESS_ERROR_INVALID_PARAM)
       ELSE IF m.workers[id + 1].eventfd <= 0 THEN unchanged(PROCESS_ERROR_INVALID_PARAM)
       ELSE IF ChanOf(tab, m.workers[id + 1].eventfd) < 0 THEN unchanged(PROCESS_ERROR_EVENTFD)
       ELSE SignalDone(m, tab, id, m.workers[id + 1].eventfd)

\* The effect of one call of signal_ready in process p.
CallSignalReady(p) ==
    LET r == worker_manager_signal_ready(mgr[p], chanfd[p])
    IN /\ mgr' = [mgr EXCEPT ![p] = r.m]
       /\ chanfd' = [chanfd EXCEPT ![p] = r.tab]
       /\ sig_ret' = [sig_ret EXCEPT ![p] = r.ret]
       /\ sigcalls' = [sigcalls EXCEPT ![p] = @ + 1]
       /\ IF r.wrote >= 0
          THEN /\ counter' = [counter EXCEPT ![r.wrote] = @ + 1]
               /\ nsignal' = [nsignal EXCEPT ![r.wrote] = @ + 1]
          ELSE UNCHANGED <<counter, nsignal>>

\* ------------------------------------- server_infrastructure_start, worker
\* server_open and the socket options: the listener is open.
WorkerOpen(p) ==
    /\ UNCHANGED <<initvars, sigvars, apivars, sysvars>>
    /\ Running(p) /\ pc[p] = "w_open"
    /\ listener' = [listener EXCEPT ![p] = TRUE]
    /\ pc' = [pc EXCEPT ![p] = "w_signal"]
    /\ UNCHANGED <<config, stdfds, mgr, sigflag, sigactive, chanfd, counter, status,
                   exit_code, li, efd, err, waited, fork_ret, nsignal, nawait,
                   sigcalls, sig_ret, pin_failed,
                   fork_failed_at>>

\* worker_manager_signal_ready(&infra->worker_manager), its result dropped;
\* then core_loop.
WorkerSignalReady(p) ==
    /\ UNCHANGED <<initvars, sigvars, apivars, sysvars>>
    /\ Running(p) /\ pc[p] = "w_signal"
    /\ CallSignalReady(p)
    /\ pc' = [pc EXCEPT ![p] = "w_loop"]
    /\ UNCHANGED <<config, stdfds, sigflag, sigactive, status, exit_code, li, efd,
                   err, waited, fork_ret, nawait, listener, pin_failed,
                   fork_failed_at>>

\* A further call of signal_ready by a worker that already made one (the
\* interface allows it from anywhere in the worker).
WorkerSignalAgain(p) ==
    /\ UNCHANGED <<initvars, sigvars, apivars, sysvars>>
    /\ Running(p) /\ pc[p] = "w_loop"
    /\ sigcalls[p] < MaxSignalCalls
    /\ CallSignalReady(p)
    /\ UNCHANGED <<config, stdfds, sigflag, sigactive, status, exit_code, li, efd,
                   err, waited, fork_ret, nawait, listener, pin_failed, pc,
                   fork_failed_at>>

\* core_loop returns (a shutdown condition or an unrecoverable event); the
\* listener is torn down and start() returns SERVER_INFRA_OK.
EventLoopReturns(p) ==
    /\ UNCHANGED <<initvars, sigvars, apivars, sysvars>>
    /\ Running(p) /\ pc[p] = "w_loop"
    /\ pc' = [pc EXCEPT ![p] = "ret"]
    /\ err' = [err EXCEPT ![p] = SERVER_INFRA_OK]
    /\ listener' = [listener EXCEPT ![p] = FALSE]
    /\ sigcalls' = [sigcalls EXCEPT ![p] = 0]
    /\ sig_ret' = [sig_ret EXCEPT ![p] = 1]
    /\ UNCHANGED <<config, stdfds, mgr, sigflag, sigactive, chanfd, counter, status,
                   exit_code, li, efd, waited, fork_ret, nsignal, nawait, pin_failed,
                   fork_failed_at>>

\* ------------------------------------- server_infrastructure_start, parent
\* The children of p that wait() can still report or wait for.
Children(p) ==
    IF p = ParentProc
    THEN {c \in WorkerProcs : status[c] \in {"running", "exited", "killed"}}
    ELSE {}

Zombies(p) == {c \in Children(p) : status[c] \in {"exited", "killed"}}

\* while (!signal_manager_shutdown_requested(...)): the loop ends when the
\* flag is set, otherwise the body calls worker_manager_wait_workers.
ParentLoopCheck(p) ==
    /\ UNCHANGED <<initvars, sigvars, apivars, sysvars>>
    /\ Running(p) /\ pc[p] = "p_loop"
    /\ IF sigflag[p]
       THEN /\ pc' = [pc EXCEPT ![p] = "ret"]
            /\ err' = [err EXCEPT ![p] = SERVER_INFRA_OK]
       ELSE /\ pc' = [pc EXCEPT ![p] = "p_wait"]
            /\ err' = err
    /\ UNCHANGED <<config, stdfds, mgr, sigflag, sigactive, chanfd, counter, status,
                   exit_code, li, efd, waited, fork_ret, nsignal, nawait, listener,
                   sigcalls, sig_ret, pin_failed,
                   fork_failed_at>>

\* The pid wait() hands back for the terminated child z.
WaitPid(z) == z

\* worker_manager_wait_workers returns PROCESS_OK: wait() reaped a terminated
\* child; the loop breaks and start() returns SERVER_INFRA_OK. The handlers are
\* installed with SA_RESTART, so a signal does not end a blocked wait().
ParentWaitReaps(p) ==
    /\ UNCHANGED <<initvars, sigvars, apivars, sysvars>>
    /\ Running(p) /\ pc[p] = "p_wait"
    /\ mgr[p].type = PROCESS_TYPE_PARENT
    /\ \E z \in Zombies(p) :
          /\ status' = [status EXCEPT ![z] = "reaped"]
          /\ waited' = WaitPid(z)
    /\ pc' = [pc EXCEPT ![p] = "ret"]
    /\ err' = [err EXCEPT ![p] = SERVER_INFRA_OK]
    /\ UNCHANGED <<config, stdfds, mgr, sigflag, sigactive, chanfd, counter,
                   exit_code, li, efd, fork_ret, nsignal, nawait, listener, sigcalls,
                   sig_ret, pin_failed,
                   fork_failed_at>>

\* worker_manager_wait_workers fails (not the parent, or wait() finds no child:
\* ECHILD): usleep, then the loop condition again.
ParentWaitFails(p) ==
    /\ UNCHANGED <<initvars, sigvars, apivars, sysvars>>
    /\ Running(p) /\ pc[p] = "p_wait"
    /\ mgr[p].type # PROCESS_TYPE_PARENT \/ Children(p) = {}
    /\ pc' = [pc EXCEPT ![p] = "p_loop"]
    /\ UNCHANGED <<config, stdfds, mgr, sigflag, sigactive, chanfd, counter, status,
                   exit_code, li, efd, err, waited, fork_ret, nsignal, nawait,
                   listener, sigcalls, sig_ret, pin_failed,
                   fork_failed_at>>

\* A wait that does not look at the role of its caller.
worker_manager_wait_workers_NoGate(m, kids) ==
    IF kids = {} THEN [ret |-> PROCESS_ERROR_WAIT, waits |-> TRUE]
    ELSE [ret |-> PROCESS_OK, waits |-> TRUE]

\* worker_manager_wait_workers called with manager m in a process whose
\* children are kids: [ret, waits]: the return value and whether wait() was
\* called. wait() fails at once when the process has no child (ECHILD) and
\* otherwise returns once a child has terminated.
worker_manager_wait_workers(m, kids) ==
    IF m.type # PROCESS_TYPE_PARENT
    THEN [ret |-> PROCESS_ERROR_INVALID_PARAM, waits |-> FALSE]
    ELSE IF kids = {} THEN [ret |-> PROCESS_ERROR_WAIT, waits |-> TRUE]
    ELSE [ret |-> PROCESS_OK, waits |-> TRUE]

\* ------------------------------------------------------ main(), the way out
\* worker_manager_cleanup: the descriptors it closes (eventfd > 0 in a slot).
CleanupFds(m) ==
    {m.workers[k].eventfd : k \in {j \in DOMAIN m.workers : m.workers[j].eventfd > 0}}

\* worker_manager_cleanup on manager m with descriptor table tab: [m, tab,
\* closed, freed]: the manager and the table afterwards, the descriptor
\* numbers handed to close() and the arrays handed to system_free.
worker_manager_cleanup(m, tab) ==
    [m |-> ZeroManager,
     tab |-> CloseAll(tab, CleanupFds(m)),
     closed |-> CleanupFds(m),
     freed |-> {f \in {"cpu_ids", "workers"} : m[f] # <<>>}]

\* server_infrastructure_destroy: signal_manager_cleanup restores the default
\* dispositions and clears the flags, worker_manager_cleanup closes and zeroes.
MainDestroy(p) ==
    /\ UNCHANGED <<initvars, sigvars, apivars, sysvars>>
    /\ Running(p) /\ pc[p] = "ret"
    /\ sigflag' = [sigflag EXCEPT ![p] = FALSE]
    /\ sigactive' = [sigactive EXCEPT ![p] = FALSE]
    /\ chanfd' = [chanfd EXCEPT ![p] = worker_manager_cleanup(mgr[p], @).tab]
    /\ mgr' = [mgr EXCEPT ![p] = worker_manager_cleanup(@, chanfd[p]).m]
    /\ pc' = [pc EXCEPT ![p] = "exit"]
    /\ UNCHANGED <<config, stdfds, counter, status, exit_code, li, efd, err, waited,
                   fork_ret, nsignal, nawait, listener, sigcalls, sig_ret, pin_failed,
                   fork_failed_at>>

\* return (err == SERVER_INFRA_OK) ? EXIT_SUCCESS : EXIT_FAILURE;
ExitCode(e) == IF e = SERVER_INFRA_OK THEN EXIT_SUCCESS ELSE EXIT_FAILURE

\* main() returns: the process ends and the kernel closes its descriptors.
\* Nothing in main(), destroy() or cleanup() signals or waits for the children.
MainReturn(p) ==
    /\ UNCHANGED <<initvars, sigvars, apivars, sysvars>>
    /\ Running(p) /\ pc[p] = "exit"
    /\ status' = [status EXCEPT ![p] = "exited"]
    /\ exit_code' = [exit_code EXCEPT ![p] = ExitCode(err[p])]
    /\ chanfd' = [chanfd EXCEPT ![p] = {}]
    /\ pc' = [pc EXCEPT ![p] = "done"]
    /\ UNCHANGED <<config, stdfds, mgr, sigflag, sigactive, counter, li, efd, err,
                   waited, fork_ret, nsignal, nawait, listener, sigcalls, sig_ret,
                   pin_failed,
                   fork_failed_at>>

\* ------------------------------------------------------------- environment
\* A process ended by a signal: its memory and its descriptors are gone.
Die(p) ==
    /\ status' = [status EXCEPT ![p] = "killed"]
    /\ pc' = [pc EXCEPT ![p] = "done"]
    /\ mgr' = [mgr EXCEPT ![p] = ZeroManager]
    /\ chanfd' = [chanfd EXCEPT ![p] = {}]
    /\ listener' = [listener EXCEPT ![p] = FALSE]
    /\ sigflag' = [sigflag EXCEPT ![p] = FALSE]
    /\ sigactive' = [sigactive EXCEPT ![p] = FALSE]
    /\ sigcalls' = [sigcalls EXCEPT ![p] = 0]
    /\ sig_ret' = [sig_ret EXCEPT ![p] = 1]
    /\ err' = [err EXCEPT ![p] = SERVER_INFRA_OK]

\* SIGTERM or SIGINT reaches process p: signal_handler sets shutdown_requested
\* while the handlers are installed; with the default disposition restored the
\* signal ends the process.
TermSignal(p) ==
    /\ UNCHANGED <<initvars, sigvars, apivars, sysvars>>
    /\ Running(p)
    /\ IF sigactive[p]
       THEN /\ sigflag' = [sigflag EXCEPT ![p] = TRUE]
            /\ UNCHANGED <<status, pc, mgr, chanfd, listener, sigactive, sigcalls,
                           sig_ret, err>>
       ELSE Die(p)
    /\ UNCHANGED <<config, stdfds, counter, exit_code, li, efd, waited, fork_ret,
                   nsignal, nawait, pin_failed,
                   fork_failed_at>>

\* A worker process is killed from outside (SIGKILL) or crashes.
KillWorker(p) ==
    /\ UNCHANGED <<initvars, sigvars, apivars, sysvars>>
    /\ p \in WorkerProcs /\ Running(p)
    /\ Die(p)
    /\ UNCHANGED <<config, stdfds, counter, exit_code, li, efd, waited, fork_ret,
                   nsignal, nawait, pin_failed,
                   fork_failed_at>>

\* ---------------------------------------------------------- specification
\* The steps the program itself takes in process p.
ProgramStep(p) ==
    \/ StartServer(p)
    \/ SpawnOk(p)
    \/ ParentAwaitOk(p)
    \/ ForkLoopDone(p)
    \/ WorkerBranchOk(p)
    \/ WorkerOpen(p)
    \/ WorkerSignalReady(p)
    \/ ParentLoopCheck(p)
    \/ ParentWaitReaps(p)
    \/ ParentWaitFails(p)
    \/ MainDestroy(p)
    \/ MainReturn(p)

\* What the operating system and the outside world decide.
EnvStep(p) ==
    \/ SpawnEventfdFail(p)
    \/ SpawnForkFail(p)
    \/ ParentAwaitFail(p)
    \/ WorkerBranchPinFail(p)
    \/ WorkerSignalAgain(p)
    \/ EventLoopReturns(p)
    \/ TermSignal(p)
    \/ KillWorker(p)

Next == \E p \in Procs : ProgramStep(p) \/ EnvStep(p)

Spec == Init /\ [][Next]_vars

\* The scheduler runs every process that can take a step of the program; the
\* failures of system calls, signals, kills and the return of the event loop
\* are not owed to anyone.
FairSpec == Spec /\ \A p \in Procs : WF_vars(ProgramStep(p))

\* ------------------------------------- pool operations from the wrong role
\* A process whose role is the parent's calls worker_manager_signal_ready.
ParentCallsSignalReady(p) ==
    /\ Running(p) /\ pc[p] \notin {"none", "done"}
    /\ mgr[p].type = PROCESS_TYPE_PARENT
    /\ LET r == worker_manager_signal_ready(mgr[p], chanfd[p])
       IN /\ mgr' = [mgr EXCEPT ![p] = r.m]
          /\ chanfd' = [chanfd EXCEPT ![p] = r.tab]
          /\ IF r.wrote >= 0
             THEN /\ counter' = [counter EXCEPT ![r.wrote] = @ + 1]
                  /\ nsignal' = [nsignal EXCEPT ![r.wrote] = @ + 1]
             ELSE UNCHANGED <<counter, nsignal>>
          /\ gate' = [op |-> "signal_ready", proc |-> p, ret |-> r.ret,
                      waits |-> FALSE, wrote |-> r.wrote]
    /\ UNCHANGED <<config, stdfds, sigflag, sigactive, pc, status, exit_code, li,
                   efd, err, waited, fork_ret, nawait, listener, sigcalls, sig_ret,
                   pin_failed, fork_failed_at, initvars, sigvars, sysvars>>

\* A process whose role is a worker's calls worker_manager_wait_workers; a
\* worker has no child, so a wait() made there would fail without blocking.
WorkerCallsWait(p) ==
    /\ Running(p) /\ pc[p] \notin {"none", "done"}
    /\ mgr[p].type = PROCESS_TYPE_WORKER
    /\ LET r == worker_manager_wait_workers(mgr[p], Children(p))
       IN gate' = [op |-> "wait_workers", proc |-> p, ret |-> r.ret,
                   waits |-> r.waits, wrote |-> -1]
    /\ UNCHANGED <<poolvars, initvars, sigvars, sysvars>>

\* Process p calls one of the three accessors on its manager.
AccessorCall(p) ==
    /\ Running(p) /\ pc[p] \notin {"none", "done"}
    /\ \E op \in {"get_type", "get_worker_id", "get_cpu_id"} :
          gate' = [op |-> op, proc |-> p,
                   ret |-> CASE op = "get_type" -> worker_manager_get_type(mgr[p])
                             [] op = "get_worker_id" -> worker_manager_get_worker_id(mgr[p])
                             [] op = "get_cpu_id" -> worker_manager_get_cpu_id(mgr[p]),
                   waits |-> FALSE, wrote |-> -1]
    /\ UNCHANGED <<poolvars, initvars, sigvars, sysvars>>

\* The program with its system calls succeeding, and calls of the two gated
\* operations made from the wrong role, and of the accessors, at any moment.
ApiInit ==
    /\ Init
    /\ config \in ValidConfigs \cup {FallbackConfig}
    /\ stdfds = {0, 1, 2}

ApiNext ==
    \E p \in Procs :
        \/ ProgramStep(p)
        \/ EventLoopReturns(p)
        \/ ParentCallsSignalReady(p)
        \/ WorkerCallsWait(p)
        \/ AccessorCall(p)

ApiSpec == ApiInit /\ [][ApiNext]_vars

\* ------------------------------------------- worker_manager_init on its own
\* The CPU ids of the arrays a caller hands in.
SomeCpus == {0, 1}

\* Every array of at most MaxWorkers ids, <<>> being the NULL pointer.
AnyCpuLists == UNION {[1..k -> SomeCpus] : k \in 0..MaxWorkers}

\* Every worker_config_t a caller can build, valid or not.
AnyConfigs ==
    {[worker_count |-> n, cpu_ids |-> ids, enable_affinity |-> a] :
        n \in (-1)..MaxWorkers, ids \in AnyCpuLists, a \in BOOLEAN}

\* A caller holds a zeroed manager and any configuration.
InitCallInit ==
    /\ config \in AnyConfigs
    /\ beyond \in [1..MaxWorkers -> SomeCpus]
    /\ init_res = NotCalled
    /\ mgr = [p \in Procs |-> ZeroManager]
    /\ pc = [p \in Procs |-> IF p = ParentProc THEN "init_call" ELSE "none"]
    /\ InitProcesses
    /\ stdfds = {0, 1, 2}
    /\ SigIdle
    /\ cpuq = NoCpuQuery

\* The caller calls worker_manager_init(&manager, &config).
InitCall(p) ==
    /\ pc[p] = "init_call"
    /\ LET r == worker_manager_init(mgr[p], config, beyond)
       IN /\ mgr' = [mgr EXCEPT ![p] = r.m]
          /\ init_res' = InitResult(r)
    /\ pc' = [pc EXCEPT ![p] = "init_done"]
    /\ UNCHANGED <<config, stdfds, sigflag, sigactive, chanfd, counter, status,
                   exit_code, li, efd, err, waited, fork_ret, nsignal, nawait,
                   listener, sigcalls, sig_ret, pin_failed, fork_failed_at,
                   beyond, sigvars, apivars, sysvars>>

InitCallNext == InitCall(ParentProc)

InitCallSpec == InitCallInit /\ [][InitCallNext]_vars

\* ------------------------------------------ system_get_cpu_info on its own
\* A caller is about to query the CPUs.
CpuInit ==
    /\ config = FallbackConfig
    /\ beyond = <<>>
    /\ init_res = NotCalled
    /\ mgr = [p \in Procs |-> ZeroManager]
    /\ pc = [p \in Procs |-> "none"]
    /\ InitProcesses
    /\ stdfds = {0, 1, 2}
    /\ SigIdle
    /\ cpuq \in CpuQueries

\* system_get_cpu_info is entered.
CpuEnter ==
    /\ cpuq.pc = "call"
    /\ cpuq' = system_get_cpu_info_enter(cpuq)
    /\ UNCHANGED <<poolvars, initvars, sigvars, apivars>>

\* The loop takes one turn.
CpuStep ==
    /\ cpuq.pc = "loop"
    /\ cpuq' = system_get_cpu_info_step(cpuq)
    /\ UNCHANGED <<poolvars, initvars, sigvars, apivars>>

CpuNext == CpuEnter \/ CpuStep

CpuSpec == CpuInit /\ [][CpuNext]_vars

\* ------------------------------------------- the signal managers on their own
\* signal_manager_init(&a, &cfg).
SigInit(a, cfg) ==
    /\ sig_alive /\ wpc = "idle"
    /\ LET r == signal_manager_init(cfg, disposition)
       IN /\ sm' = [sm EXCEPT ![a] = r.m]
          /\ disposition' = r.disp
          /\ global_signal_manager' = IF r.target THEN a ELSE global_signal_manager
    /\ sig_op' = <<"init", a>>
    /\ handlers' = [handlers EXCEPT ![a] = NoHandlers]
    /\ called' = "NULL"
    /\ UNCHANGED <<sig_alive, wpc, poolvars, initvars, apivars, sysvars>>

\* signal_manager_cleanup(&a).
SigCleanup(a) ==
    /\ sig_alive /\ wpc = "idle"
    /\ LET r == signal_manager_cleanup(sm[a], disposition)
       IN /\ sm' = [sm EXCEPT ![a] = r.m]
          /\ disposition' = r.disp
    /\ global_signal_manager' = signal_manager_cleanup_target(global_signal_manager, a)
    /\ sig_op' = <<"cleanup", a>>
    /\ handlers' = [handlers EXCEPT ![a] = NoHandlers]
    /\ called' = "NULL"
    /\ UNCHANGED <<sig_alive, wpc, poolvars, initvars, apivars, sysvars>>

\* signal_manager_reset_shutdown(&a).
SigResetShutdown(a) ==
    /\ sig_alive /\ wpc = "idle"
    /\ sm' = [sm EXCEPT ![a] = signal_manager_reset_shutdown(@)]
    /\ sig_op' = <<"reset_shutdown", a>>
    /\ called' = "NULL"
    /\ UNCHANGED <<global_signal_manager, disposition, sig_alive, wpc, handlers,
                   poolvars, initvars, apivars, sysvars>>

\* signal_manager_reset_reload(&a).
SigResetReload(a) ==
    /\ sig_alive /\ wpc = "idle"
    /\ sm' = [sm EXCEPT ![a] = signal_manager_reset_reload(@)]
    /\ sig_op' = <<"reset_reload", a>>
    /\ called' = "NULL"
    /\ UNCHANGED <<global_signal_manager, disposition, sig_alive, wpc, handlers,
                   poolvars, initvars, apivars, sysvars>>

\* The process receives signal s: the installed handler runs and dispatches to
\* global_signal_manager (nowhere while it is NULL), an ignored signal does
\* nothing, the default disposition of each of these signals ends the process.
SigDeliver(s) ==
    /\ sig_alive
    /\ IF disposition[s] = "handler"
       THEN /\ sm' = IF global_signal_manager = "NULL" THEN sm
                     ELSE [sm EXCEPT ![global_signal_manager] = signal_handler(@, s)]
            /\ sig_alive' = sig_alive
       ELSE /\ sm' = sm
            /\ sig_alive' = (disposition[s] = "SIG_IGN")
    /\ called' = IF disposition[s] = "handler" /\ global_signal_manager # "NULL"
                 THEN signal_handler_callback(handlers[global_signal_manager], s)
                 ELSE "NULL"
    /\ sig_op' = <<"deliver", s>>
    /\ UNCHANGED <<global_signal_manager, disposition, wpc, handlers, poolvars,
                   initvars, apivars, sysvars>>

SignalNext ==
    \/ \E a \in Insts : \E cfg \in SignalConfigs : SigInit(a, cfg)
    \/ \E a \in Insts : SigCleanup(a) \/ SigResetShutdown(a) \/ SigResetReload(a)
    \/ \E s \in Signals : SigDeliver(s)

\* A process that holds the zeroed instances and has run system_init.
SignalInit ==
    /\ config = FallbackConfig
    /\ beyond = <<>>
    /\ init_res = NotCalled
    /\ mgr = [p \in Procs |-> ZeroManager]
    /\ pc = [p \in Procs |-> "none"]
    /\ InitProcesses
    /\ stdfds = {0, 1, 2}
    /\ SigIdle
    /\ cpuq = NoCpuQuery

SignalSpec == SignalInit /\ [][SignalNext]_vars

\* ------------------------------------------ signal_manager_init that fails
\* signal_manager_init(&a, &cfg) in which sigaction fails for the k-th signal.
SigInitFail(a, cfg, k) ==
    /\ sig_alive /\ wpc = "idle"
    /\ cfg[SignalOrder[k]]
    /\ LET r == signal_manager_init_failing(cfg, disposition, k)
       IN /\ sm' = [sm EXCEPT ![a] = r.m]
          /\ disposition' = r.disp
          /\ global_signal_manager' = IF r.target THEN a ELSE global_signal_manager
    /\ sig_op' = <<"init_failed", a>>
    /\ handlers' = [handlers EXCEPT ![a] = NoHandlers]
    /\ called' = "NULL"
    /\ UNCHANGED <<sig_alive, wpc, poolvars, initvars, apivars, sysvars>>

\* One instance whose signal_manager_init succeeds or fails at any signal its
\* configuration enables, its cleanup, and signals delivered.
SetupFailNext ==
    \/ \E cfg \in {signal_manager_default_config, [s \in Signals |-> TRUE]} :
          \/ SigInit("A", cfg)
          \/ \E k \in 1..Len(SignalOrder) : SigInitFail("A", cfg, k)
    \/ SigCleanup("A")
    \/ \E s \in Signals : SigDeliver(s)

SetupFailSpec == SignalInit /\ [][SetupFailNext]_vars

\* ----------------------------------------------- signal_manager_set_handler
\* Signal numbers handed to set_handler: the six, and one that is none of
\* them.
SetHandlerSignals == Signals \cup {"SIGQUIT"}

\* signal_manager_set_handler(&a, s, cb).
SetHandler(a, s, cb) ==
    /\ sig_alive /\ wpc = "idle"
    /\ LET r == signal_manager_set_handler(handlers[a], s, cb)
       IN /\ handlers' = [handlers EXCEPT ![a] = r.h]
          /\ sig_op' = <<"set_handler", a, s, cb, r.ret>>
    /\ called' = "NULL"
    /\ UNCHANGED <<sm, global_signal_manager, disposition, sig_alive, wpc, poolvars,
                   initvars, apivars, sysvars>>

\* One instance, initialised with the default configuration or with every
\* signal enabled, its callbacks set and replaced, signals delivered.
HandlerNext ==
    \/ \E cfg \in {signal_manager_default_config, [s \in Signals |-> TRUE]} :
          SigInit("A", cfg)
    \/ SigCleanup("A")
    \/ \E s \in Signals : SigDeliver(s)
    \/ \E s \in SetHandlerSignals : \E cb \in Callbacks : SetHandler("A", s, cb)

HandlerSpec == SignalInit /\ [][HandlerNext]_vars

\* ------------------------------------------------------ signal_manager_wait
\* signal_manager_wait(&a) is called.
WaitCall(a) ==
    /\ sig_alive /\ wpc = "idle"
    /\ wpc' = a
    /\ sig_op' = <<"wait", a>>
    /\ UNCHANGED <<sm, global_signal_manager, disposition, sig_alive, handlers,
                   called, poolvars, initvars, apivars, sysvars>>

\* One evaluation of the loop condition of signal_manager_wait(&a): the call
\* returns when a flag is up, otherwise the process sleeps 100 ms.
WaitPoll(a) ==
    /\ sig_alive /\ wpc = a
    /\ IF signal_manager_wait_done(sm[a])
       THEN /\ wpc' = "idle"
            /\ sig_op' = <<"wait_return", a>>
       ELSE UNCHANGED <<wpc, sig_op>>
    /\ UNCHANGED <<sm, global_signal_manager, disposition, sig_alive, handlers,
                   called, poolvars, initvars, apivars, sysvars>>

WaitNext ==
    \/ SignalNext
    \/ \E a \in Insts : WaitCall(a) \/ WaitPoll(a)

\* The process is scheduled: a poll that can be made is made.
WaitSpec ==
    /\ SignalInit /\ [][WaitNext]_vars
    /\ \A a \in Insts : WF_vars(WaitPoll(a))

\* ================================================================= claims
Created(p) == status[p] # "absent"

\* The process has left fork_workers through the worker branch with success
\* and has not yet torn its manager down.
InWorkerRun(p) ==
    /\ Running(p) /\ ~pin_failed[p]
    /\ pc[p] \in {"w_open", "w_signal", "w_loop", "ret"}

N == config.worker_count

\* C1: for a valid config with worker_count = N, once fork_workers has
\* returned success in the parent, the parent has completed N readiness
\* handshakes (one per slot, each signalled by its worker), exactly the N
\* processes of the slots 0..N-1 have been created, every one of them still
\* alive and not torn down has the worker role, and in the process of slot i
\* the accessors give role Worker, index i and CPU cpu_ids[i]; the parent
\* keeps the parent role.
C1_ForkWorkersOutcome ==
    /\ (fork_ret = PROCESS_OK /\ config \in ValidConfigs) =>
          /\ \A i \in 0..(N - 1) : nawait[i] = 1 /\ nsignal[i] = 1
          /\ {p \in WorkerProcs : Created(p)} = {ChildPid(i) : i \in 0..(N - 1)}
          /\ \A p \in WorkerProcs :
                (Running(p) /\ pc[p] \notin {"exit", "done"}) => InWorkerRun(p)
          /\ worker_manager_get_type(mgr[ParentProc]) = PROCESS_TYPE_PARENT
          /\ worker_manager_get_worker_id(mgr[ParentProc]) = -1
    /\ \A p \in WorkerProcs :
          InWorkerRun(p) =>
             /\ worker_manager_get_type(mgr[p]) = PROCESS_TYPE_WORKER
             /\ worker_manager_get_worker_id(mgr[p]) = p - 1
             /\ worker_manager_get_cpu_id(mgr[p]) = config.cpu_ids[p]

\* All MaxWorkers workers of a config whose CPU ids differ from the slot
\* indices are in their event loops and the parent's fork_workers has returned.
C1_Witness ==
    /\ fork_ret = PROCESS_OK
    /\ N = MaxWorkers
    /\ config.cpu_ids[1] # 0
    /\ \A p \in WorkerProcs : Running(p) /\ pc[p] = "w_loop"
    /\ pc[ParentProc] = "p_wait"

\* C2: workers are spawned in ascending slot order without gaps, the process
\* of slot j exists only when every lower slot's worker has signalled and the
\* parent has consumed that signal, and at no time do two created workers
\* have a handshake the parent has not completed.
C2_SequentialHandshake ==
    /\ \A j \in Slots :
          Created(ChildPid(j)) =>
             \A i \in 0..(j - 1) :
                Created(ChildPid(i)) /\ nsignal[i] = 1 /\ nawait[i] = 1
    /\ Cardinality({i \in Slots : Created(ChildPid(i)) /\ nawait[i] = 0}) <= 1

\* The last worker has just been spawned and the parent awaits its signal.
C2_Witness ==
    /\ pc[ParentProc] = "p_await"
    /\ li[ParentProc] = MaxWorkers - 1
    /\ pc[MaxWorkers] = "c_branch"

\* C3: a process that has taken the worker branch for slot i holds no open
\* descriptor of the readiness channel of any other slot.
C3_NoForeignHandles ==
    \A p \in WorkerProcs :
        (Running(p) /\ pc[p] # "c_branch") => \A h \in chanfd[p] : h[2] = p - 1

\* A worker of a later slot is past the branch and holds its own handle.
C3_Witness ==
    /\ pc[MaxWorkers] = "w_open" /\ Running(MaxWorkers)
    /\ \E h \in chanfd[MaxWorkers] : h[2] = MaxWorkers - 1

\* A call of signal_ready by a worker that has made one before: it fails with
\* the invalid-parameter error, writes to no channel, closes nothing and
\* leaves the manager as it was.
SecondSignalFails ==
    \A p \in WorkerProcs :
        (sigcalls[p] >= 1 /\ sigcalls'[p] = sigcalls[p] + 1) =>
            /\ sig_ret'[p] = PROCESS_ERROR_INVALID_PARAM
            /\ mgr' = mgr /\ chanfd' = chanfd
            /\ counter' = counter /\ nsignal' = nsignal

\* C4: every readiness channel is signalled at most once and awaited at most
\* once, and a second signal_ready of the same worker fails without a write
\* and without changing the worker's state.
C4_OneShotChannel ==
    /\ [](\A c \in Slots : nsignal[c] <= 1 /\ nawait[c] <= 1)
    /\ [][SecondSignalFails]_vars

\* A worker has signalled once and then called signal_ready again.
C4_Witness ==
    \E p \in WorkerProcs :
        /\ sigcalls[p] = 2 /\ sig_ret[p] = PROCESS_ERROR_INVALID_PARAM
        /\ nsignal[p - 1] = 1 /\ nawait[p - 1] = 1

\* C5: when fork() failed at slot k, no process of a slot >= k exists, and the
\* parent's fork_workers has returned PROCESS_ERROR_FORK, which start() turns
\* into an error.
C5_SpawnFailureStops ==
    fork_failed_at >= 0 =>
        /\ \A i \in Slots : i >= fork_failed_at => ~Created(ChildPid(i))
        /\ fork_ret = PROCESS_ERROR_FORK
        /\ pc[ParentProc] \in {"ret", "exit", "done"}
        /\ Running(ParentProc) /\ pc[ParentProc] = "ret" =>
              err[ParentProc] = SERVER_INFRA_ERROR_STARTUP

\* The fork of a slot other than the last one failed after an earlier worker
\* had been spawned.
C5_Witness ==
    /\ fork_failed_at = MaxWorkers - 1
    /\ Created(ChildPid(0))
    /\ pc[ParentProc] = "ret"

\* fork_workers has returned an error in the parent.
StartupFailed == fork_ret \in {PROCESS_ERROR_FORK, PROCESS_ERROR_EVENTFD}

\* C6: once fork_workers has failed in the parent at slot k and the parent
\* has torn down and exited, no worker process of a slot below k is running.
C6_NoPartialPool ==
    (StartupFailed /\ status[ParentProc] = "exited") =>
        \A p \in WorkerProcs : p - 1 < li[ParentProc] => ~Running(p)

\* C7: when the CPU pin has failed in the worker of some slot and that worker
\* has ended with its failure status, the parent's fork_workers eventually
\* returns a failure.
C7_PinFailureEndsStartup ==
    \A p \in WorkerProcs :
        (pin_failed[p] /\ status[p] = "exited") ~> StartupFailed

\* C8: a worker whose CPU pin failed never opens a listener, never calls
\* signal_ready, never signals its channel and never enters the event loop;
\* start() returns an error in it and when its main() returns the exit status
\* is not zero.
C8_PinFailureAbortsWorker ==
    \A p \in WorkerProcs :
        pin_failed[p] =>
            /\ config.enable_affinity
            /\ ~listener[p] /\ sigcalls[p] = 0 /\ nsignal[p - 1] = 0
            /\ pc[p] \in {"ret", "exit", "done"}
            /\ (Running(p) /\ pc[p] \in {"ret", "exit"}) => err[p] = SERVER_INFRA_ERROR_STARTUP
            /\ status[p] \in {"exited", "reaped"} => exit_code[p] = EXIT_FAILURE

\* A worker whose pin failed has returned from main().
C8_Witness ==
    \E p \in WorkerProcs :
        pin_failed[p] /\ status[p] = "exited" /\ exit_code[p] = EXIT_FAILURE

\* The parent is in its steady-state loop.
InParentLoop == Running(ParentProc) /\ pc[ParentProc] \in {"p_loop", "p_wait"}

\* C9: the parent's loop ends once the parent has received a terminate or
\* interrupt signal in it, whether or not a worker exits, and it ends once a
\* worker has terminated, whether or not a signal arrives.
C9_LoopEndsOnEither ==
    /\ (InParentLoop /\ sigflag[ParentProc]) ~> ~InParentLoop
    /\ (InParentLoop /\ Zombies(ParentProc) # {}) ~> ~InParentLoop

\* The pids the parent has recorded in its slots.
RecordedPids == {mgr[ParentProc].workers[k].pid : k \in DOMAIN mgr[ParentProc].workers}

C11_WorkerDeathEndsPool ==
    (InParentLoop /\ Zombies(ParentProc) # {}) ~> (\A p \in Procs : ~Running(p))

\* A step that changes the shutdown flag of an instance: the flag is raised
\* only by the handler run for a terminate or interrupt signal and dispatched
\* to that instance, and it is lowered only by reset_shutdown on the instance
\* or by the memset of a cleanup or a new init of the instance.
ShutdownFlagWrites ==
    \A a \in Insts :
        /\ (~signal_manager_shutdown_requested(sm[a])
               /\ signal_manager_shutdown_requested(sm'[a])) =>
              /\ sig_op' \in {<<"deliver", "SIGTERM">>, <<"deliver", "SIGINT">>}
              /\ disposition[sig_op'[2]] = "handler"
              /\ global_signal_manager = a
        /\ (signal_manager_shutdown_requested(sm[a])
               /\ ~signal_manager_shutdown_requested(sm'[a])) =>
              sig_op' \in {<<"reset_shutdown", a>>, <<"cleanup", a>>, <<"init", a>>}

\* C12: when the process of an active signal manager has received a
\* terminate or interrupt signal, shutdown_requested() of that manager is
\* true; the flag stays true until it is reset or the instance is torn down,
\* and nothing but the signal handler sets it.
C12_ShutdownFlagSticky ==
    /\ []((/\ sig_op \in {<<"deliver", "SIGTERM">>, <<"deliver", "SIGINT">>}
           /\ sig_alive
           /\ global_signal_manager # "NULL") =>
              signal_manager_shutdown_requested(sm[global_signal_manager]))
    /\ [][ShutdownFlagWrites]_vars

\* The flag raised by a terminate signal is still up after a later reload
\* signal has been handled and the reload flag has been reset.
C12_Witness ==
    /\ global_signal_manager = "A"
    /\ signal_manager_shutdown_requested(sm["A"])
    /\ sm["A"].config["SIGHUP"]
    /\ sig_op = <<"reset_reload", "A">>

\* C13: with a worker count that is not positive, worker_manager_init returns
\* the invalid-parameter error without having called system_init or
\* allocated anything, the manager stays as the memset left it, and no worker
\* process and no readiness channel is ever created from it.
C13_NonPositiveCountRejected ==
    config.worker_count <= 0 =>
        /\ init_res.ret = PROCESS_ERROR_INVALID_PARAM
        /\ ~init_res.system_init /\ init_res.allocs = 0
        /\ mgr[ParentProc] = ZeroManager
        /\ \A p \in WorkerProcs : ~Created(p)
        /\ \A p \in Procs : chanfd[p] = {}
        /\ \A c \in Slots : nsignal[c] = 0 /\ nawait[c] = 0

\* fork_workers has run on the manager of a rejected worker count of zero.
C13_Witness ==
    /\ config.worker_count = 0 /\ config.cpu_ids # <<>>
    /\ fork_ret = PROCESS_OK
    /\ pc[ParentProc] = "p_wait"

\* C14: once worker_manager_init has been called, it has failed with the
\* invalid-parameter error whenever the number of entries of cpu_ids differs
\* from worker_count, and it has succeeded only with worker_count > 0 and
\* exactly worker_count entries.
C14_LengthMismatchRejected ==
    init_res # NotCalled =>
        /\ Len(config.cpu_ids) # config.worker_count =>
              init_res.ret = PROCESS_ERROR_INVALID_PARAM
        /\ init_res.ret = PROCESS_OK =>
              config.worker_count > 0 /\ Len(config.cpu_ids) = config.worker_count

\* C15: when worker_manager_init has rejected the configuration, the parent
\* never enters its wait loop, and when its main() has returned the exit
\* status is not zero.
C15_RejectedConfigFailsStartup ==
    init_res.ret # PROCESS_OK =>
        /\ ~InParentLoop
        /\ status[ParentProc] = "exited" => exit_code[ParentProc] # EXIT_SUCCESS

\* The step the parent takes out of a wait that failed (wait() had no child
\* to wait for) takes it out of the loop.
WaitFailureLeavesLoop ==
    (/\ Running(ParentProc) /\ pc[ParentProc] = "p_wait"
     /\ Children(ParentProc) = {}
     /\ pc'[ParentProc] # "p_wait") =>
        pc'[ParentProc] \notin {"p_loop", "p_wait"}

\* C16: a failed wait ends the parent's loop: after worker_manager_wait_workers
\* has failed the parent does not go back to the loop's condition and to
\* another wait.
C16_WaitFailureIsFatal == [][WaitFailureLeavesLoop]_vars

\* The parent awaits the signal of a worker that has not signalled.
AwaitingUnsignalled ==
    /\ Running(ParentProc) /\ pc[ParentProc] = "p_await"
    /\ nsignal[li[ParentProc]] = 0

\* A step taken while the parent awaits a worker that has not signalled
\* leaves the parent where it is, in the same slot, fork_workers not returned
\* and no later slot's worker created, whether the awaited worker is alive or
\* has ended; the one way out is that eventfd_read itself fails.
HandshakeHasNoTimeout ==
    AwaitingUnsignalled =>
        \/ /\ Running(ParentProc)' /\ pc'[ParentProc] = "p_await"
           /\ li'[ParentProc] = li[ParentProc]
           /\ fork_ret' = 1
           /\ \A j \in Slots : j > li[ParentProc] => status'[ChildPid(j)] = "absent"
        \/ fork_ret' = PROCESS_ERROR_EVENTFD

\* C17: the startup handshake has no timeout: while worker i has not called
\* signal_ready, alive or not, the parent stays blocked in fork_workers, does
\* not spawn worker i + 1 and does not return.
C17_NoHandshakeTimeout == [][HandshakeHasNoTimeout]_vars

\* The worker of the last slot has ended without signalling and the parent
\* still awaits its signal.
C17_Witness ==
    /\ AwaitingUnsignalled
    /\ li[ParentProc] = MaxWorkers - 1
    /\ status[MaxWorkers] \in {"exited", "killed"}

\* A cleanup of instance a: every signal the instance had enabled has its
\* default disposition afterwards, the others keep theirs, the instance is
\* zeroed, and the dispatch target is cleared when it was this instance.
CleanupRestoresDefaults ==
    \A a \in Insts :
        sig_op' = <<"cleanup", a>> =>
            /\ \A s \in Signals :
                  disposition'[s] = IF sm[a].config[s] THEN "SIG_DFL" ELSE disposition[s]
            /\ sm'[a] = ZeroSignalManager
            /\ global_signal_manager = a => global_signal_manager' = "NULL"

\* An init with the default configuration directly followed by the cleanup
\* of the same instance: terminate, interrupt and pipe-broken have their
\* default disposition and no dispatch target is set.
DefaultInitThenCleanup ==
    \A a \in Insts :
        (/\ sig_op = <<"init", a>>
         /\ sm[a].config = signal_manager_default_config
         /\ sig_op' = <<"cleanup", a>>) =>
            /\ \A s \in {"SIGTERM", "SIGINT", "SIGPIPE"} : disposition'[s] = "SIG_DFL"
            /\ global_signal_manager' = "NULL"
            /\ sm'[a] = ZeroSignalManager

\* C18: the default signal configuration enables terminate, interrupt and
\* pipe-broken and disables reload and the two user signals; an init with it
\* followed by cleanup leaves every signal the instance enabled with its
\* default disposition, the instance zeroed and no dispatch target set.
C18_DefaultConfigRoundTrip ==
    /\ [](\A s \in Signals :
            signal_manager_default_config[s] <=> s \in {"SIGTERM", "SIGINT", "SIGPIPE"})
    /\ [](\A a \in Insts :
            (sig_op = <<"init", a>> /\ sm[a].config = signal_manager_default_config) =>
                /\ global_signal_manager = a
                /\ \A s \in {"SIGTERM", "SIGINT", "SIGPIPE"} : disposition[s] = "handler")
    /\ [][CleanupRestoresDefaults /\ DefaultInitThenCleanup]_vars

\* Instance A has been cleaned up and the process is as before any init but
\* for SIGPIPE, which system_init had set to be ignored and now has its
\* default disposition.
C18_Witness ==
    /\ sig_op = <<"cleanup", "A">>
    /\ global_signal_manager = "NULL"
    /\ \A a \in Insts : sm[a] = ZeroSignalManager
    /\ \A s \in Signals : disposition[s] = "SIG_DFL"

\* A step that creates a process is the parent's step from the head of its
\* fork loop to the await of the slot of that process, records the new
\* process in that slot and moves no other worker.
SpawnIsByParent ==
    \A c \in WorkerProcs :
        (status[c] = "absent" /\ status'[c] # "absent") =>
            /\ Running(ParentProc)
            /\ pc[ParentProc] = "fork_loop" /\ pc'[ParentProc] = "p_await"
            /\ li[ParentProc] = c - 1
            /\ mgr[ParentProc].type = PROCESS_TYPE_PARENT
            /\ mgr'[ParentProc].workers[c].pid = c
            /\ \A w \in WorkerProcs \ {c} : pc'[w] = pc[w] /\ status'[w] = status[w]

\* C19: a process that has taken the worker branch is never at the fork loop
\* or at an await again, every process is created by a step of the parent,
\* and the number of processes created never exceeds worker_count.
C19_OnlyParentSpawns ==
    /\ [](\A p \in WorkerProcs :
            /\ pc[p] \notin {"start", "fork_loop", "p_await"}
            /\ (Created(p) /\ pc[p] \notin {"c_branch", "done"} /\ mgr[p] # ZeroManager) =>
                  mgr[p].type = PROCESS_TYPE_WORKER)
    /\ [](Cardinality({p \in WorkerProcs : Created(p)}) <= (IF N > 0 THEN N ELSE 0))
    /\ [][SpawnIsByParent]_vars

\* Every worker of the largest pool has been created and runs its event loop.
C19_Witness ==
    /\ N = MaxWorkers
    /\ \A p \in WorkerProcs : Running(p) /\ pc[p] = "w_loop"
    /\ Cardinality({p \in WorkerProcs : Created(p)}) = N

\* The process has left worker_manager_fork_workers: its role is settled.
PastForkStep(p) ==
    Running(p) /\ pc[p] \in {"p_loop", "p_wait", "w_open", "w_signal", "w_loop", "ret", "exit"}

\* A step of a process whose role is settled leaves what its role and
\* worker-index accessors report as it was.
RoleStable ==
    \A p \in Procs :
        (PastForkStep(p) /\ Running(p)') =>
            /\ worker_manager_get_type(mgr'[p]) = worker_manager_get_type(mgr[p])
            /\ worker_manager_get_worker_id(mgr'[p]) = worker_manager_get_worker_id(mgr[p])

\* C20: after the fork step the role and the worker index a process reports
\* never change again in that process, whatever signal_ready, wait, accessor
\* and cleanup calls it makes.
C20_RoleNeverChanges == [][RoleStable]_vars

\* A call from the wrong role leaves the pool, its processes and its channels
\* as they were.
GatedCallChangesNothing == gate' # gate => poolvars' = poolvars

\* C21: signal_ready called in a process with the parent's role fails with
\* the invalid-parameter error and writes to no channel; wait_workers called
\* in a worker fails with the same error without calling wait(); neither
\* call changes the pool.
C21_RoleGating ==
    /\ [](gate.op = "signal_ready" =>
            gate.ret = PROCESS_ERROR_INVALID_PARAM /\ gate.wrote = -1)
    /\ [](gate.op = "wait_workers" =>
            gate.ret = PROCESS_ERROR_INVALID_PARAM /\ ~gate.waits)
    /\ [][GatedCallChangesNothing]_vars

\* A worker in its event loop has called wait_workers, the parent sitting in
\* its own wait.
C21_Witness ==
    /\ gate.op = "wait_workers" /\ gate.proc = MaxWorkers
    /\ pc[MaxWorkers] = "w_loop"
    /\ pc[ParentProc] = "p_wait"

\* start() has returned in a worker whose pin succeeded, so its event loop
\* has returned.
EventLoopReturned(p) ==
    /\ p \in WorkerProcs /\ Running(p) /\ pc[p] = "ret" /\ ~pin_failed[p]

\* C22: the parent exits 0 after a clean shutdown; a process exits non-zero
\* after a fatal startup error (fork_workers failed in the parent, the pin
\* failed in a worker); a worker whose event loop has returned while no
\* shutdown was requested is on its way to a non-zero exit status.
C22_ExitCodes ==
    /\ (status[ParentProc] = "exited" /\ fork_ret = PROCESS_OK) =>
          exit_code[ParentProc] = EXIT_SUCCESS
    /\ (status[ParentProc] = "exited" /\ StartupFailed) =>
          exit_code[ParentProc] # EXIT_SUCCESS
    /\ \A p \in WorkerProcs :
          (status[p] = "exited" /\ pin_failed[p]) => exit_code[p] # EXIT_SUCCESS
    /\ \A p \in WorkerProcs :
          (EventLoopReturned(p) /\ ~sigflag[p]) => ExitCode(err[p]) # EXIT_SUCCESS

\* The step of a process through worker_manager_cleanup: every descriptor a
\* slot recorded is closed afterwards, and a second cleanup finds nothing to
\* close or free and changes nothing.
CleanupClosesAndIsIdempotent ==
    \A p \in Procs :
        (Running(p) /\ pc[p] = "ret" /\ pc'[p] = "exit") =>
            LET r == worker_manager_cleanup(mgr[p], chanfd[p])
                r2 == worker_manager_cleanup(r.m, r.tab)
            IN /\ mgr'[p] = r.m /\ chanfd'[p] = r.tab
               /\ \A k \in DOMAIN mgr[p].workers :
                     ChanOf(chanfd'[p], mgr[p].workers[k].eventfd) < 0
               /\ r2.m = r.m /\ r2.tab = r.tab
               /\ r2.closed = {} /\ r2.freed = {}

\* C23: worker_manager_cleanup can be called in whatever state the manager
\* is; afterwards no readiness-channel descriptor recorded in a slot is open,
\* and a second cleanup changes nothing and closes or frees nothing again.
C23_CleanupIdempotent == [][CleanupClosesAndIsIdempotent]_vars

\* A terminate or interrupt signal handled while instance b is the dispatch
\* target raises the shutdown flag of b and leaves every other instance as it
\* was; an init of b directly after an init of another instance moves the
\* target to b and leaves the other instance as it was.
DispatchToLastInit ==
    /\ \A b \in Insts :
          (/\ sig_op' \in {<<"deliver", "SIGTERM">>, <<"deliver", "SIGINT">>}
           /\ sig_alive
           /\ disposition[sig_op'[2]] = "handler"
           /\ global_signal_manager = b) =>
              /\ signal_manager_shutdown_requested(sm'[b])
              /\ \A a \in Insts \ {b} : sm'[a] = sm[a]
    /\ \A a, b \in Insts :
          (a # b /\ sig_op = <<"init", a>> /\ sig_op' = <<"init", b>>) =>
              /\ global_signal_manager = a /\ global_signal_manager' = b
              /\ sm'[a] = sm[a]
    /\ Cardinality({a \in Insts : sm'[a] # sm[a]}) <= 1

\* C24: there is one dispatch target at most, the instance initialised last;
\* after init(A) and then init(B) a delivered terminate signal raises
\* shutdown_requested of B alone and leaves the flags of A as they were.
C24_SingleDispatchTarget ==
    /\ [](global_signal_manager \in Insts \cup {"NULL"})
    /\ [](sig_op[1] = "init" => global_signal_manager = sig_op[2])
    /\ [][DispatchToLastInit]_vars

\* With A and B both initialised and B initialised last, a terminate signal
\* has raised the flag of B and not that of A.
C24_Witness ==
    /\ sig_op = <<"deliver", "SIGTERM">>
    /\ global_signal_manager = "B"
    /\ signal_manager_shutdown_requested(sm["B"])
    /\ sm["A"].config["SIGTERM"]
    /\ ~signal_manager_shutdown_requested(sm["A"])

\* The write that signals readiness for slot i is made by the worker of
\* slot i, pinned and with its listener open, on its way into the event loop.
SignalAfterOpen ==
    \A i \in Slots :
        nsignal'[i] > nsignal[i] =>
            LET p == ChildPid(i)
            IN /\ listener[p] /\ ~pin_failed[p]
               /\ pc[p] = "w_signal" /\ pc'[p] = "w_loop"
               /\ worker_manager_get_cpu_id(mgr[p]) = config.cpu_ids[i + 1]

\* C25: a worker opens its listener before it calls signal_ready and enters
\* the event loop only after that call; whenever the parent has completed
\* the handshake of slot i, the worker of slot i has pinned its CPU where
\* affinity is enabled, has opened its listener and has signalled.
C25_WorkerOrdering ==
    /\ [](\A p \in WorkerProcs :
            /\ (Running(p) /\ pc[p] = "w_signal") => listener[p]
            /\ (Running(p) /\ pc[p] = "w_loop") => listener[p] /\ sigcalls[p] >= 1)
    /\ [](\A i \in Slots :
            nawait[i] >= 1 =>
                /\ nsignal[i] >= 1
                /\ ~pin_failed[ChildPid(i)]
                /\ pc[ChildPid(i)] \notin {"none", "c_branch", "w_open", "w_signal"})
    /\ [][SignalAfterOpen]_vars

\* With affinity enabled the parent has completed the handshake of the last
\* slot and that worker runs its event loop behind an open listener.
C25_Witness ==
    /\ config.enable_affinity
    /\ nawait[MaxWorkers - 1] = 1
    /\ pc[ChildPid(MaxWorkers - 1)] = "w_loop"
    /\ listener[ChildPid(MaxWorkers - 1)]

\* The step in which eventfd() or eventfd_read fails is the step in which
\* fork_workers returns the error to start(); a failed eventfd() leaves the
\* slot without a process; once fork_workers has returned no process is
\* created.
SyncFailureReturnsAtOnce ==
    /\ fork_ret' = PROCESS_ERROR_EVENTFD =>
          /\ fork_ret = PROCESS_ERROR_EVENTFD \/
                (/\ pc[ParentProc] \in {"fork_loop", "p_await"}
                 /\ pc'[ParentProc] = "ret"
                 /\ li' = li /\ status' = status)
          /\ (fork_ret # PROCESS_ERROR_EVENTFD /\ pc[ParentProc] = "fork_loop") =>
                status'[ChildPid(li[ParentProc])] = "absent"
    /\ fork_ret # 1 =>
          \A p \in WorkerProcs : status[p] = "absent" => status'[p] = "absent"

\* C26: when creating or awaiting the readiness channel of slot k fails,
\* fork_workers returns PROCESS_ERROR_EVENTFD in the parent at once and no
\* worker of a slot above k is ever spawned; when the creation failed, no
\* worker of slot k either.
C26_SyncFailureStopsSpawning ==
    /\ [](fork_ret = PROCESS_ERROR_EVENTFD =>
            /\ pc[ParentProc] \in {"ret", "exit", "done"}
            /\ \A p \in WorkerProcs : p - 1 > li[ParentProc] => status[p] = "absent")
    /\ [][SyncFailureReturnsAtOnce]_vars

\* The await of slot 0 of MaxWorkers has failed: worker 0 exists, the parent
\* has exited and no further worker was spawned.
C26_Witness ==
    /\ fork_ret = PROCESS_ERROR_EVENTFD
    /\ N = MaxWorkers /\ li[ParentProc] = 0
    /\ Created(ChildPid(0))
    /\ status[ParentProc] = "exited"

\* The parent has left its loop by the loop condition: the shutdown flag was
\* up and no child had been reaped; the signal went to the parent alone, after
\* the workers were forked.
ParentLoopEndedBySignal ==
    /\ Running(ParentProc) /\ pc[ParentProc] = "ret"
    /\ fork_ret = PROCESS_OK /\ waited = 0
    /\ sigflag[ParentProc]
    /\ \A p \in WorkerProcs : ~sigflag[p]

\* C27: when the parent's loop has ended because the parent received a
\* terminate or interrupt signal, eventually no worker process is running.
C27_GracefulShutdown ==
    ParentLoopEndedBySignal ~> (\A p \in WorkerProcs : ~Running(p))

\* What the handler run for signal s does to the flags of the dispatch
\* target b; no other instance changes.
HandlerFrame ==
    \A s \in Signals : \A b \in Insts :
        (/\ sig_op' = <<"deliver", s>> /\ sig_alive
         /\ disposition[s] = "handler" /\ global_signal_manager = b) =>
            /\ s \in {"SIGTERM", "SIGINT"} =>
                  /\ sm'[b].shutdown_requested = 1
                  /\ sm'[b].reload_requested = sm[b].reload_requested
            /\ s = "SIGHUP" =>
                  /\ sm'[b].reload_requested = 1
                  /\ sm'[b].shutdown_requested = sm[b].shutdown_requested
            /\ s \in {"SIGUSR1", "SIGUSR2", "SIGPIPE"} => sm'[b] = sm[b]
            /\ sm'[b].config = sm[b].config

\* C28: the handler sets shutdown_requested for a terminate or interrupt
\* signal and leaves reload_requested as it was, sets reload_requested for a
\* reload signal and leaves shutdown_requested as it was, and changes neither
\* flag for a user-defined or pipe-broken signal.
C28_HandlerFrame == [][HandlerFrame]_vars

\* A user-defined signal has been handled while both flags of the target
\* were up, and both are still up.
C28_Witness ==
    /\ sig_op = <<"deliver", "SIGUSR1">>
    /\ sig_alive /\ disposition["SIGUSR1"] = "handler"
    /\ global_signal_manager = "A"
    /\ sm["A"].shutdown_requested = 1 /\ sm["A"].reload_requested = 1

\* reset_reload clears the reload flag of its instance and nothing else,
\* reset_shutdown the shutdown flag and nothing else; a reload signal handled
\* for the target raises the reload flag whatever resets came before.
ResetFrame ==
    \A a \in Insts :
        /\ sig_op' = <<"reset_reload", a>> =>
              /\ sm' = [sm EXCEPT ![a].reload_requested = 0]
              /\ ~signal_manager_reload_requested(sm'[a])
        /\ sig_op' = <<"reset_shutdown", a>> =>
              /\ sm' = [sm EXCEPT ![a].shutdown_requested = 0]
              /\ ~signal_manager_shutdown_requested(sm'[a])
        /\ (/\ sig_op = <<"reset_reload", a>> /\ sig_op' = <<"deliver", "SIGHUP">>
            /\ disposition["SIGHUP"] = "handler" /\ global_signal_manager = a) =>
              signal_manager_reload_requested(sm'[a])

\* C29: reset_reload clears reload_requested and leaves shutdown_requested
\* as it was, reset_shutdown the other way round; a reload signal after a
\* reset raises reload_requested again.
C29_ResetFrame == [][ResetFrame]_vars

\* The reload flag of the target has been reset while its shutdown flag was
\* up, and the shutdown flag is still up.
C29_Witness ==
    /\ sig_op = <<"reset_reload", "B">>
    /\ global_signal_manager = "B"
    /\ sm["B"].config["SIGHUP"]
    /\ signal_manager_shutdown_requested(sm["B"])
    /\ ~signal_manager_reload_requested(sm["B"])

\* signal_manager_wait returns only with a flag of its instance up.
WaitReturnsOnFlag ==
    \A a \in Insts :
        (wpc = a /\ wpc' = "idle") =>
            /\ signal_manager_shutdown_requested(sm[a])
                  \/ signal_manager_reload_requested(sm[a])
            /\ sm' = sm

\* C30: signal_manager_wait returns only in a state where shutdown_requested
\* or reload_requested of its instance is true, and a wait whose instance has
\* a flag up returns eventually, the process being alive and scheduled.
C30_WaitBlocking ==
    /\ [][WaitReturnsOnFlag]_vars
    /\ \A a \in Insts :
          (wpc = a
              /\ (signal_manager_shutdown_requested(sm[a])
                     \/ signal_manager_reload_requested(sm[a])))
             ~> (wpc = "idle" \/ ~sig_alive)

\* A wait on the target has returned after a reload signal alone.
C30_Witness ==
    /\ sig_op = <<"wait_return", "A">>
    /\ wpc = "idle"
    /\ signal_manager_reload_requested(sm["A"])
    /\ ~signal_manager_shutdown_requested(sm["A"])

\* A cleanup of instance a removes the dispatch target when it points at a
\* and leaves it where it points otherwise.
CleanupClearsOwnTarget ==
    \A a \in Insts :
        sig_op' = <<"cleanup", a>> =>
            /\ global_signal_manager = a => global_signal_manager' = "NULL"
            /\ global_signal_manager # a => global_signal_manager' = global_signal_manager

\* C31: signal_manager_cleanup of instance A clears the dispatch target only
\* when the target is A: after init(A), init(B), cleanup(A) the target is
\* still B.
C31_CleanupClearsOwnTarget ==
    /\ [][CleanupClearsOwnTarget]_vars
    /\ [][\A a, b \in Insts :
            (a # b /\ sig_op = <<"init", b>> /\ sig_op' = <<"cleanup", a>>) =>
                global_signal_manager' = b]_vars

\* A has been cleaned up while B, initialised after it, is the target.
C31_Witness ==
    /\ sig_op = <<"cleanup", "A">>
    /\ global_signal_manager = "B"
    /\ sm["A"] = ZeroSignalManager
    /\ sm["B"].config["SIGTERM"]

\* A terminate signal delivered while instance b is the dispatch target and
\* has terminate handling enabled raises the shutdown flag of b.
TargetSeesTerminate ==
    \A b \in Insts :
        (/\ sig_op' = <<"deliver", "SIGTERM">> /\ sig_alive
         /\ global_signal_manager = b
         /\ sm[b].config["SIGTERM"]) =>
            signal_manager_shutdown_requested(sm'[b])

\* C32: while an instance is the dispatch target and has terminate handling
\* enabled, every terminate signal delivered to the process sets its
\* shutdown_requested, whatever init and cleanup calls were made on other
\* instances in between.
C32_TargetSeesTerminate == [][TargetSeesTerminate]_vars

\* C33: the parent holds at most one open readiness-channel descriptor at
\* any moment, and only while it awaits that channel's worker; once
\* fork_workers has returned success every slot's descriptor is closed and
\* marked closed, so that worker_manager_cleanup finds nothing to close.
C33_ParentHoldsOneHandle ==
    /\ Cardinality(chanfd[ParentProc]) <= 1
    /\ chanfd[ParentProc] # {} => pc[ParentProc] = "p_await"
    /\ fork_ret = PROCESS_OK =>
          /\ chanfd[ParentProc] = {}
          /\ \A k \in DOMAIN mgr[ParentProc].workers :
                mgr[ParentProc].workers[k].eventfd = -1
          /\ worker_manager_cleanup(mgr[ParentProc], chanfd[ParentProc]).closed = {}

\* fork_workers has returned success for MaxWorkers workers and the parent,
\* about to enter its loop, records every slot as closed.
C33_Witness ==
    /\ fork_ret = PROCESS_OK /\ N = MaxWorkers
    /\ Running(ParentProc) /\ pc[ParentProc] = "p_loop"
    /\ Len(mgr[ParentProc].workers) = MaxWorkers
    /\ \A k \in 1..MaxWorkers : mgr[ParentProc].workers[k].eventfd = -1

\* What a call of set_handler(&a, s, cb) does, and what the next delivery
\* of s invokes.
SetHandlerFrame ==
    /\ sig_op'[1] = "set_handler" =>
          LET a == sig_op'[2]
              s == sig_op'[3]
              cb == sig_op'[4]
              ret == sig_op'[5]
          IN /\ sm' = sm
             /\ IF s \in CallbackSignals
                THEN /\ ret = "SIGNAL_OK"
                     /\ handlers' = [handlers EXCEPT ![a][s] = cb]
                ELSE /\ ret = "SIGNAL_ERROR_INVALID_PARAM"
                     /\ handlers' = handlers
    /\ (sig_op[1] = "set_handler" /\ sig_op'[1] = "deliver") =>
          LET a == sig_op[2]
              s == sig_op[3]
              cb == sig_op[4]
          IN (/\ sig_op[5] = "SIGNAL_OK" /\ sig_op'[2] = s
              /\ disposition[s] = "handler" /\ global_signal_manager = a) =>
                 called' = cb

\* C34: set_handler registers or replaces the callback of a terminate,
\* interrupt, reload or user signal, and the next delivery of that signal,
\* handled with the instance as dispatch target, invokes the new callback;
\* for any other signal, pipe-broken included, it fails and leaves every
\* callback and both flags as they were.
C34_SetHandler == [][SetHandlerFrame]_vars

\* The callback of the first user signal has been replaced and the next
\* delivery has invoked the new one.
C34_Witness ==
    /\ sig_op = <<"deliver", "SIGUSR1">>
    /\ global_signal_manager = "A"
    /\ handlers["A"]["SIGUSR1"] = "g" /\ handlers["A"]["SIGTERM"] = "f"
    /\ called = "g"

\* What an accessor called in process p hands back, and what the call leaves
\* alone.
AccessorResult ==
    (gate' # gate /\ gate'.op \in {"get_type", "get_worker_id", "get_cpu_id"}) =>
        LET p == gate'.proc
            r == gate'.ret
        IN /\ poolvars' = poolvars
           /\ gate'.op = "get_type" => r = mgr[p].type
           /\ (/\ mgr[p].type = PROCESS_TYPE_PARENT
               /\ gate'.op \in {"get_worker_id", "get_cpu_id"}) => r = -1
           /\ mgr[p].type = PROCESS_TYPE_WORKER =>
                 /\ gate'.op = "get_worker_id" => r = p - 1
                 /\ gate'.op = "get_cpu_id" =>
                       r = mgr[p].workers[p].cpu_id /\ r = config.cpu_ids[p]

\* C35: worker_manager_get_type, worker_manager_get_worker_id and
\* worker_manager_get_cpu_id change nothing; with the parent's role the last
\* two return -1, and in the worker of slot i they return i and the CPU id
\* recorded for slot i, whether affinity is enabled or not.
C35_PureAccessors == [][AccessorResult]_vars

\* With affinity disabled the worker of slot 0 has asked for its CPU id,
\* which is not its index.
C35_Witness ==
    /\ ~config.enable_affinity /\ N = MaxWorkers
    /\ gate.op = "get_cpu_id" /\ gate.proc = ChildPid(0)
    /\ gate.ret = config.cpu_ids[1] /\ gate.ret # 0
    /\ pc[ChildPid(0)] = "w_loop"

\* The ids handed back, as a set.
CpuIdSet == {cpuq.ids[k] : k \in 1..Len(cpuq.ids)}

\* C36: a successful system_get_cpu_info hands back a non-empty array of
\* distinct CPU ids in ascending order, as long as the count it reports, that
\* holds exactly the CPUs of the affinity mask of the process; it fails when
\* sched_getaffinity fails and when the mask holds no CPU.
C36_OnlineCpus ==
    cpuq.pc = "done" =>
        /\ cpuq.ret = SYSTEM_OK =>
              /\ cpuq.ids # <<>> /\ cpuq.count = Len(cpuq.ids)
              /\ \A j, k \in 1..Len(cpuq.ids) : j < k => cpuq.ids[j] < cpuq.ids[k]
              /\ CpuIdSet = cpuq.mask
        /\ (~cpuq.query_ok \/ cpuq.mask = {}) =>
              cpuq.ret = SYSTEM_ERROR_CPU_COUNT /\ cpuq.ids = <<>>

\* The query of a process allowed on CPUs 1 and 3 alone has succeeded.
C36_Witness ==
    /\ cpuq.pc = "done" /\ cpuq.ret = SYSTEM_OK
    /\ cpuq.mask = {1, 3}
    /\ cpuq.ids = <<1, 3>>

\* Every descriptor number above 0 a slot of a live process records is an
\* open readiness channel of that process.
NoStaleDescriptor ==
    \A p \in Procs :
        Running(p) =>
            \A k \in DOMAIN mgr[p].workers :
                mgr[p].workers[k].eventfd > 0 =>
                    ChanOf(chanfd[p], mgr[p].workers[k].eventfd) >= 0

\* The step through worker_manager_cleanup hands close() open descriptors
\* only.
CleanupClosesOpenOnly ==
    \A p \in Procs :
        (Running(p) /\ pc[p] = "ret" /\ pc'[p] = "exit") =>
            \A fd \in worker_manager_cleanup(mgr[p], chanfd[p]).closed :
                ChanOf(chanfd[p], fd) >= 0

\* C37: no readiness-channel descriptor is closed twice by a process, on any
\* path through fork_workers, signal_ready and cleanup: a slot never records
\* a descriptor number its process has closed, and cleanup closes open
\* descriptors only.
C37_NoDoubleClose == []NoStaleDescriptor /\ [][CleanupClosesOpenOnly]_vars

\* The step through worker_manager_cleanup closes every descriptor a slot
\* records that is still open.
CleanupClosesEveryOpen ==
    \A p \in Procs :
        (Running(p) /\ pc[p] = "ret" /\ pc'[p] = "exit") =>
            \A k \in DOMAIN mgr[p].workers :
                ChanOf(chanfd[p], mgr[p].workers[k].eventfd) >= 0 =>
                    mgr[p].workers[k].eventfd
                        \in worker_manager_cleanup(mgr[p], chanfd[p]).closed

\* C38: whatever descriptor number eventfd() returned, 0 included, the first
\* signal_ready of the worker succeeds and cleanup closes a descriptor that
\* is still open.
C38_AnyDescriptorNumber ==
    /\ [](\A p \in WorkerProcs :
            (Running(p) /\ pc[p] = "w_loop" /\ sigcalls[p] = 1) =>
                sig_ret[p] = PROCESS_OK)
    /\ [][CleanupClosesEveryOpen]_vars

\* No process is created while the parent's shutdown flag is up, and a
\* process that is created starts with its flag down.
NoSpawnAfterShutdown ==
    \A p \in WorkerProcs :
        (status[p] = "absent" /\ status'[p] # "absent") =>
            ~sigflag[ParentProc] /\ ~sigflag'[p]

\* C39: the parent spawns no worker after its shutdown_requested has been
\* set: a terminate or interrupt signal delivered during fork_workers stops
\* the spawning, and no worker starts with shutdown_requested true.
C39_NoSpawnAfterShutdown == [][NoSpawnAfterShutdown]_vars

\* A signal_manager_init that failed has left the dispatch target and the
\* dispositions as they were before the call.
FailedInitChangesNothing ==
    \A a \in Insts :
        sig_op' = <<"init_failed", a>> =>
            /\ global_signal_manager' = global_signal_manager
            /\ disposition' = disposition

\* C40: a signal_manager_init that fails leaves the process as it was before
\* the call: the dispatch target does not point at the instance because of
\* it, and no handler the call installed stays installed.
C40_FailedInitChangesNothing == [][FailedInitChangesNothing]_vars

====
